---- MODULE Spec2Model ----
(***************************************************************************)
(* Model of the League MCP tool provider (src/mcp-server/league_original.py)*)
(* One tool invocation is a coroutine with a single suspension point, the  *)
(* HTTPS GET inside make_riot_request: ToolCall runs the tool up to that   *)
(* point, Respond delivers the upstream outcome and runs it to its end.    *)
(* Strings the program builds are modelled as sequences of tokens: literal *)
(* template text, interpolated strings, interpolated numbers and rendered  *)
(* list entries.                                                           *)
(***************************************************************************)
EXTENDS Integers, Sequences, FiniteSets, TLC

VARIABLES apiKey, pc, cur, calls, req, resp, result, served, fcall, fres, inv,
          argv, googleKey, mainpc, exitStatus, stdout, client, queue, gen

vars == <<apiKey, pc, cur, calls, req, resp, result, served, fcall, fres, inv,
          argv, googleKey, mainpc, exitStatus, stdout, client, queue, gen>>

(* the variables of one sequential tool invocation, of a direct call of a
   pure function, and of the concurrently running invocations *)
serverVars == <<pc, cur, calls, req, resp, result, served>>
pureVars == <<fcall, fres>>
concVars == <<inv>>

(* the variables of the chat client process (src/mcp-client/client.py): its
   command line and environment, the position of main(), its exit status
   and output, the LeagueMCPClient object, its message_queue, and the
   running generate_response calls *)
clientVars == <<argv, googleKey, mainpc, exitStatus, stdout, client, queue, gen>>

(* ---------------------------------------------------------------- bounds *)
MaxItems == 26
MaxServed == 2
MaxConc == 2
MaxEvents == 2
MaxParticipants == 2
MaxFrames == 2
MaxEntries == 2
MaxCount == 3

(* ------------------------------------------------------------- constants *)
LOL_REGIONS == <<"na1", "euw1", "eun1", "kr", "jp1", "br1", "la1", "la2", "oc1", "tr1", "ru">>

MATCH_ROUTING_REGIONS == <<"americas", "asia", "europe", "sea">>

PLATFORM_TO_ROUTING ==
    [p \in {"na1", "br1", "la1", "la2"} |-> "americas"] @@
    [p \in {"kr", "jp1"} |-> "asia"] @@
    [p \in {"euw1", "eun1", "tr1", "ru"} |-> "europe"] @@
    [p \in {"oc1"} |-> "sea"]

ACCOUNT_REGIONS == <<"americas", "asia", "europe">>

CHALLENGE_LEVELS == <<"MASTER", "GRANDMASTER", "CHALLENGER">>

Range(s) == {s[i] : i \in 1..Len(s)}

(* ---------------------------------------------------------------- tokens *)
Lit(s) == [k |-> "lit", s |-> s, n |-> 0]
Str(s) == [k |-> "str", s |-> s, n |-> 0]
Num(n) == [k |-> "num", s |-> "", n |-> n]
Entry(i) == [k |-> "entry", s |-> "", n |-> i]

RECURSIVE Join(_)
Join(seq) ==
    IF Len(seq) = 0 THEN <<>>
    ELSE IF Len(seq) = 1 THEN <<Str(seq[1])>>
    ELSE <<Str(seq[1]), Lit(", ")>> \o Join(Tail(seq))

Entries(n) == [i \in 1..n |-> Entry(i)]

CountEntries(out) == Cardinality({i \in 1..Len(out) : out[i].k = "entry"})

Ret(out) == [kind |-> "return", out |-> out, exc |-> ""]
Raise(e) == [kind |-> "raise", out |-> <<>>, exc |-> e]
NoResult == [kind |-> "none", out |-> <<>>, exc |-> ""]

Min(a, b) == IF a < b THEN a ELSE b

(* ------------------------------------------------------------ JSON values *)
(* t     : JSON type; "obj0" is the empty object                           *)
(* n     : items of the principal list (object), length (list, string),    *)
(*         value (number)                                                  *)
(* elem  : kind of the list items: "obj" a full object, "obj0" the empty   *)
(*         object, "str" a string                                          *)
(* err   : the object has an "error" key / the string contains "error"     *)
(* msg   : the tokens of the "error" value                                 *)
(* keys  : the optional scalar keys of the object are present              *)
(* tm    : info.teams of a match: "none" absent, "ok" a winning team with *)
(*         teamId, "nokey" a winning team without teamId                   *)
(* acct  : the gameName and tagLine values of an account object            *)
(* ids   : the teamId of each participant when the principal list is a     *)
(*         list of participants with given teams; <<>> otherwise           *)
(* frames: the frames of a match timeline when they are given one by one;  *)
(*         <<>> otherwise                                                  *)
(* ts:     the two epoch-millisecond values of the object (or of each of   *)
(*         its list items) when they are given; <<>> otherwise             *)
(* wl:     the wins and losses of each league entry when the principal     *)
(*         list is a list of entries with given counts; <<>> otherwise     *)
Account(gameName, tagLine) == [gameName |-> gameName, tagLine |-> tagLine]

(* an account whose two values are left symbolic, named after their keys *)
AnyAccount == Account("gameName", "tagLine")

(* the Riot IDs used as arguments and as upstream account values *)
RiotIds == {Account("Faker", "T1"), Account("Hide on bush", "KR1")}

JVal(t, n, elem, err, msg, keys, tm) ==
    [t |-> t, n |-> n, elem |-> elem, err |-> err, msg |-> msg, keys |-> keys, tm |-> tm,
     acct |-> AnyAccount, ids |-> <<>>, frames |-> <<>>, ts |-> <<>>,
     wl |-> <<>>]

JNull == JVal("null", 0, "obj", FALSE, <<>>, FALSE, "none")
JEmptyObj == JVal("obj0", 0, "obj", FALSE, <<>>, FALSE, "none")
JObj(n, elem, keys, tm) == JVal("obj", n, elem, FALSE, <<>>, keys, tm)
JErr(msg) == JVal("obj", 0, "obj", TRUE, msg, FALSE, "none")
JList(n, elem) == JVal("list", n, elem, FALSE, <<>>, FALSE, "none")
JStr(n, err) == JVal("str", n, "str", err, <<>>, FALSE, "none")
JNum(n) == JVal("num", n, "obj", FALSE, <<>>, FALSE, "none")

(* teamId values: the two sides and a value that is neither *)
TeamIdValues == {100, 200, 300}

(* the teamId of a participant that has no such key *)
NoTeamId == 0

TeamLists == UNION {[1..k -> TeamIdValues] : k \in 1..MaxParticipants}

(* a game or match object whose participants have the teamIds ids *)
JMatch(ids) == [JObj(Len(ids), "obj", TRUE, "ok") EXCEPT !.ids = ids]

(* a timeline frame: its timestamp in milliseconds and count events of one
   type *)
TimelineFrame(timestamp, type, count) == [timestamp |-> timestamp, type |-> type, count |-> count]

FrameInterval == 60000
TimelineEventTypes == {"CHAMPION_KILL", "BUILDING_KILL", "CHAMPION_SPECIAL_KILL", "ITEM_PURCHASED"}
FrameValues ==
    {TimelineFrame(ts, ty, c) : ts \in {0, FrameInterval}, ty \in TimelineEventTypes, c \in {1, 21}}

(* a timeline object with the given frames *)
JTimeline(frames) == [JObj(Len(frames), "obj", TRUE, "ok") EXCEPT !.frames = frames]

TimelinePayloads == UNION {{JTimeline(fs) : fs \in [1..k -> FrameValues]} : k \in 1..MaxFrames}

(* values of an epoch-millisecond key: 0 (also the .get default), a valid
   instant, a string, the first millisecond of year 10000, and an integer
   too large for a C double *)
TsZero == "0"
TsValid == "1700000000000"
TsText == "abc"
TsYear10000 == "253402300800000"
TsHuge == "10**400"
TimestampValues == {TsZero, TsValid, TsText, TsYear10000, TsHuge}

(* an object with one list item, and a list of one object, whose two
   epoch-millisecond keys have the values a and b *)
JTimes(a, b) == [JObj(1, "obj", TRUE, "none") EXCEPT !.ts = <<a, b>>]
JTimesList(a, b) == [JList(1, "obj") EXCEPT !.ts = <<a, b>>]

TimestampPayloads ==
    {JTimes(a, b) : a, b \in TimestampValues} \cup {JTimesList(a, b) : a, b \in TimestampValues}

(* a league entry: its wins and losses, or neither key *)
LeagueEntry(wins, losses) == [wins |-> wins, losses |-> losses, present |-> TRUE]
BareEntry == [wins |-> 0, losses |-> 0, present |-> FALSE]
LeagueEntryValues == {BareEntry} \cup {LeagueEntry(w, l) : w, l \in 0..MaxCount}
LeagueEntryLists == UNION {[1..k -> LeagueEntryValues] : k \in 1..MaxEntries}

(* a league object with the given entries (of equal leaguePoints), and a
   list of the given entries *)
JLeague(wl) == [JObj(Len(wl), "obj", TRUE, "none") EXCEPT !.wl = wl]
JLeagueEntries(wl) == [JList(Len(wl), "obj") EXCEPT !.wl = wl]
LeaguePayloads ==
    {JLeague(wl) : wl \in LeagueEntryLists} \cup {JLeagueEntries(wl) : wl \in LeagueEntryLists}

(* the account object {puuid, gameName, tagLine} of the Riot ID a *)
JAccount(a) == [JObj(0, "obj", TRUE, "none") EXCEPT !.acct = a]

ElemKinds == {"obj", "obj0", "str"}

Payloads ==
    {JNull, JEmptyObj, JErr(<<Str("upstream error field")>>)}
    \cup {JObj(n, e, TRUE, "ok") : n \in 0..MaxItems, e \in {"obj", "str"}}
    \cup {JObj(n, e, k, tm) : n \in 0..1, e \in ElemKinds, k \in BOOLEAN, tm \in {"none", "ok", "nokey"}}
    \cup {JList(n, e) : n \in 0..MaxItems, e \in {"obj", "str"}}
    \cup {JList(1, "obj0")}
    \cup {JStr(n, err) : n \in 0..1, err \in BOOLEAN}
    \cup {JNum(n) : n \in 0..1}
    \cup {JAccount(a) : a \in RiotIds}
    \cup {JMatch(ids) : ids \in TeamLists}

Falsy_NullIsData(p) ==
    \/ p.t = "obj0"
    \/ p.t \in {"list", "str", "num"} /\ p.n = 0

(* Python truthiness of a parsed JSON value: `not data` *)
Falsy(p) ==
    \/ p.t \in {"null", "obj0"}
    \/ p.t \in {"list", "str", "num"} /\ p.n = 0

(* ------------------------------------------------------ upstream outcomes *)
OkStatuses == {200, 204}
ErrStatuses == {404, 429, 500}
MalformedTexts == {"", "<html>"}
ErrTexts == {"", "<html>", "{status: {message: Data not found}}"}
TransportErrors == {"ConnectError", "ReadTimeout"}

Response(o, status, text, parsed) == [o |-> o, status |-> status, text |-> text, parsed |-> parsed]
NoResp == Response("none", 0, "", JNull)

Responses ==
    {Response("exc", 0, m, JNull) : m \in TransportErrors}
    \cup {Response("http", s, t, JNull) : s \in ErrStatuses, t \in ErrTexts}
    \cup {Response("http", s, t, JNull) : s \in OkStatuses, t \in MalformedTexts}
    \cup {Response("http", 200, "<json>", p) : p \in Payloads}

Is2xx(status) == status \div 100 = 2

KeyMissing_OnlyNone(k) == k = "<None>"

(* `not API_KEY`: os.getenv gave None or the empty string *)
KeyMissing(k) == k \in {"<None>", ""}

RequestsIssued_BeforeKeyCheck(k) == 1

(* make_riot_request up to the GET: 0 requests and an error dict when the
   key is missing, else 1 request *)
RequestsIssued(k) == IF KeyMissing(k) THEN 0 ELSE 1

NoKeyError == JErr(<<Str("RIOT_API_KEY environment variable not set")>>)

make_riot_request_DropsBody(r) ==
    IF r.o = "exc"
    THEN JErr(<<Lit("Request failed: "), Str(r.text)>>)
    ELSE IF ~Is2xx(r.status)
    THEN JErr(<<Lit("HTTP "), Num(r.status)>>)
    ELSE IF r.text \in MalformedTexts
    THEN JErr(<<Lit("Request failed: "), Str("JSONDecodeError")>>)
    ELSE r.parsed

(* make_riot_request from the GET's outcome to its return value *)
make_riot_request(r) ==
    IF r.o = "exc"
    THEN JErr(<<Lit("Request failed: "), Str(r.text)>>)
    ELSE IF ~Is2xx(r.status)
    THEN JErr(<<Lit("HTTP "), Num(r.status), Lit(": "), Str(r.text)>>)
    ELSE IF r.text \in MalformedTexts
    THEN JErr(<<Lit("Request failed: "), Str("JSONDecodeError")>>)
    ELSE r.parsed

(* ------------------------------------------------------------- formatters *)
(* Value of an optional scalar key: data.get(key, default) *)
Get(p, key, default) == IF p.keys THEN Str(key) ELSE Str(default)

(* `if "error" in data: return f"Error: {data['error']}"` followed by the
   first data.get(...): the result it ends with, or NoResult to go on *)
DictPrelude(p) ==
    IF p.t \in {"null", "num"} THEN Raise("TypeError")
    ELSE IF p.t = "str" THEN (IF p.err THEN Raise("TypeError") ELSE Raise("AttributeError"))
    ELSE IF p.t = "list" THEN Raise("AttributeError")
    ELSE IF p.err THEN Ret(<<Lit("Error: ")>> \o p.msg)
    ELSE NoResult

(* `if not data: return <none found>` then
   `if isinstance(data, dict) and "error" in data: return f"Error: ..."` *)
ListPrelude(p, noneFound) ==
    IF Falsy(p) THEN Ret(noneFound)
    ELSE IF p.t = "obj" /\ p.err THEN Ret(<<Lit("Error: ")>> \o p.msg)
    ELSE NoResult

(* Iterating a non-list with item.get(...), or a list of non-objects *)
ItemsRaise(p) ==
    IF p.t = "num" THEN "TypeError"
    ELSE IF p.t \in {"obj", "str"} THEN "AttributeError"
    ELSE IF p.n > 0 /\ p.elem = "str" THEN "AttributeError"
    ELSE ""

(* item.get(...) over the principal list of an object *)
FieldItemsRaise(p) == IF p.n > 0 /\ p.elem = "str" THEN "AttributeError" ELSE ""

DictFormat(p, raises, body) ==
    LET pre == DictPrelude(p) IN
    IF pre # NoResult THEN pre
    ELSE IF raises # "" THEN Raise(raises)
    ELSE Ret(body)

ListFormat(p, noneFound, raises, body) ==
    LET pre == ListPrelude(p, noneFound) IN
    IF pre # NoResult THEN pre
    ELSE IF raises # "" THEN Raise(raises)
    ELSE Ret(body)

format_account_TagFirst(p) ==
    LET game_name == IF p.keys THEN Str(p.acct.gameName) ELSE Str("N/A")
        tag_line == IF p.keys THEN Str(p.acct.tagLine) ELSE Str("N/A")
    IN  DictFormat(p, "",
            <<Lit("PUUID: "), Get(p, "puuid", "N/A"),
              Lit("Game Name: "), game_name,
              Lit("Tag Line: "), tag_line,
              Lit("Riot ID: "), tag_line, Lit("#"), game_name>>)

format_account(p) ==
    LET game_name == IF p.keys THEN Str(p.acct.gameName) ELSE Str("N/A")
        tag_line == IF p.keys THEN Str(p.acct.tagLine) ELSE Str("N/A")
    IN  DictFormat(p, "",
            <<Lit("PUUID: "), Get(p, "puuid", "N/A"),
              Lit("Game Name: "), game_name,
              Lit("Tag Line: "), tag_line,
              Lit("Riot ID: "), game_name, Lit("#"), tag_line>>)

active_shard_text(p) ==
    DictFormat(p, "",
        <<Lit("Game: "), Get(p, "game", "N/A"),
          Lit("Active Shard: "), Get(p, "activeShard", "N/A"),
          Lit("PUUID: "), Get(p, "puuid", "N/A")>>)

active_region_text(p) ==
    DictFormat(p, "",
        <<Lit("PUUID: "), Get(p, "puuid", "N/A"),
          Lit("Game: "), Get(p, "game", "N/A"),
          Lit("Active Region: "), Get(p, "region", "N/A")>>)

(* participant.get('teamId') of each participant: as given, else 100 for a
   full object and absent for an empty one *)
TeamIds(p) ==
    IF p.ids # <<>> THEN p.ids
    ELSE [i \in 1..p.n |-> IF p.elem = "obj" THEN 100 ELSE NoTeamId]

(* the participants whose teamId is in want, in list order *)
EntriesOf(ids, want) ==
    LET idx == SelectSeq([i \in 1..Len(ids) |-> i], LAMBDA i : ids[i] \in want)
    IN  [j \in 1..Len(idx) |-> Entry(idx[j])]

(* team1_players: `participant.get('teamId') == 100` *)
Team1Count(p) == Len(EntriesOf(TeamIds(p), {100}))

(* team2_players: the else branch *)
Team2Players(p) == EntriesOf(TeamIds(p), (TeamIdValues \cup {NoTeamId}) \ {100})

format_active_game(p) ==
    DictFormat(p, FieldItemsRaise(p),
        <<Lit("ACTIVE GAME INFORMATION"), Lit("Game ID: "), Get(p, "gameId", "N/A"),
          Lit("TEAM 1 (Blue Side):"), Lit("Players: "), Num(Team1Count(p))>>
        \o EntriesOf(TeamIds(p), {100})
        \o <<Lit("TEAM 2 (Red Side):"), Lit("Players: "), Num(Len(Team2Players(p)))>>
        \o Team2Players(p))

format_featured_games(p) ==
    LET pre == DictPrelude(p) IN
    IF pre # NoResult THEN pre
    ELSE IF p.n = 0 THEN Ret(<<Lit("No featured games currently available.")>>)
    ELSE IF FieldItemsRaise(p) # "" THEN Raise(FieldItemsRaise(p))
    ELSE Ret(<<Lit("FEATURED GAMES"), Lit("Total Games: "), Num(p.n)>> \o Entries(p.n))

(* data.get(key, 0) of an epoch-millisecond key of the object, and of a list
   item of the object *)
FieldTimestamp(p, i) ==
    IF p.ts # <<>> THEN p.ts[i] ELSE IF p.keys THEN TsValid ELSE TsZero
ItemTimestamp(p, i) ==
    IF p.ts # <<>> THEN p.ts[i] ELSE IF p.elem = "obj" THEN TsValid ELSE TsZero

(* the exception of datetime.datetime.fromtimestamp(v / 1000), "" if none *)
FromTimestampError(v) ==
    IF v = TsText THEN "TypeError"
    ELSE IF v = TsYear10000 THEN "ValueError"
    ELSE IF v = TsHuge THEN "OverflowError"
    ELSE ""

(* `except (ValueError, TypeError):` *)
Caught(exc) == exc \in {"ValueError", "TypeError"}

(* strftime('%Y-%m-%d %H:%M:%S UTC') and strftime('%Y-%m-%d') of the instant
   v, and f"Epoch: {v}" *)
DateTime(v) == [k |-> "datetime", s |-> v, n |-> 0]
DateOnly(v) == [k |-> "date", s |-> v, n |-> 0]
EpochOf(v) == <<Lit("Epoch: "), Str(v)>>

(* `<conversion> if v else na` *)
Converted(v, na) == IF v = TsZero THEN <<Lit(na)>> ELSE <<DateTime(v)>>

(* the exception of the conversion `<conversion> if v else ...` *)
ConversionError(v) == IF v = TsZero THEN "" ELSE FromTimestampError(v)

(* one try block assigning two values in turn, with one except clause
   assigning both fallbacks: the exception that leaves the block, and the two
   values after it *)
SharedTry(e1, e2, ok1, ok2, fb1, fb2) ==
    LET exc == IF e1 # "" THEN e1 ELSE e2 IN
    IF exc = "" THEN [exc |-> "", a |-> ok1, b |-> ok2]
    ELSE IF Caught(exc) THEN [exc |-> "", a |-> fb1, b |-> fb2]
    ELSE [exc |-> exc, a |-> <<>>, b |-> <<>>]

(* the try block of two timestamps *)
TwoTimes(v1, v2) ==
    SharedTry(ConversionError(v1), ConversionError(v2),
              Converted(v1, "N/A"), Converted(v2, "N/A"), EpochOf(v1), EpochOf(v2))

(* n entries, each followed by the tokens extra *)
EntriesWith(n, extra) ==
    LET w == Len(extra) + 1 IN
    [k \in 1..(n * w) |-> IF (k - 1) % w = 0 THEN Entry(((k - 1) \div w) + 1) ELSE extra[(k - 1) % w]]

format_summoner(p) ==
    LET revision_date == FieldTimestamp(p, 1)
        exc == ConversionError(revision_date)
        revision_str ==
            IF revision_date = TsZero THEN <<Lit("N/A")>>
            ELSE IF exc = "" THEN <<DateTime(revision_date)>>
            ELSE EpochOf(revision_date)
    IN  DictFormat(p, IF Caught(exc) THEN "" ELSE exc,
            <<Lit("SUMMONER INFORMATION"), Lit("Summoner ID: "), Get(p, "id", "N/A"),
              Lit("Account ID: "), Get(p, "accountId", "N/A"),
              Lit("PUUID: "), Get(p, "puuid", "N/A"),
              Lit("Last Modified: ")>> \o revision_str)

format_champion_rotation(p) ==
    DictFormat(p, "",
        <<Lit("CHAMPION ROTATION"), Lit("Max New Player Level: "), Get(p, "maxNewPlayerLevel", "N/A"),
          Lit("Free Champions (All Players): "), Num(p.n), Lit(" champions")>>)

format_clash_player(p) ==
    ListFormat(p, <<Lit("No active Clash registrations found for this player.")>>, ItemsRaise(p),
        <<Lit("CLASH PLAYER REGISTRATIONS"), Lit("Active Registrations: "), Num(p.n)>> \o Entries(p.n))

format_clash_team(p) ==
    DictFormat(p, FieldItemsRaise(p),
        <<Lit("CLASH TEAM INFORMATION"), Lit("Team ID: "), Get(p, "id", "N/A"),
          Lit("Team Members ("), Num(p.n), Lit("):")>> \o Entries(p.n))

(* a full tournament has a schedule of one phase, an empty one has none *)
format_clash_tournaments(p) ==
    LET phases == p.n > 0 /\ p.elem = "obj"
        t == TwoTimes(ItemTimestamp(p, 1), ItemTimestamp(p, 2))
    IN  ListFormat(p, <<Lit("No active or upcoming tournaments found.")>>,
            IF ItemsRaise(p) # "" THEN ItemsRaise(p) ELSE IF phases THEN t.exc ELSE "",
            <<Lit("CLASH TOURNAMENTS"), Lit("Active/Upcoming Tournaments: "), Num(p.n)>>
            \o (IF phases
                THEN EntriesWith(p.n, <<Lit("Registration: ")>> \o t.a \o <<Lit("Start Time: ")>> \o t.b)
                ELSE Entries(p.n)))

format_clash_tournament(p) ==
    LET t == TwoTimes(ItemTimestamp(p, 1), ItemTimestamp(p, 2)) IN
    DictFormat(p,
        IF FieldItemsRaise(p) # "" THEN FieldItemsRaise(p) ELSE IF p.n > 0 THEN t.exc ELSE "",
        <<Lit("CLASH TOURNAMENT DETAILS"), Lit("Tournament ID: "), Get(p, "id", "N/A"),
          Lit("Total Phases: "), Num(p.n), Lit("TOURNAMENT SCHEDULE:")>>
        \o EntriesWith(p.n, <<Lit("Registration Opens: ")>> \o t.a \o <<Lit("Tournament Start: ")>> \o t.b))

(* display caps of the truncating formatters *)
LeagueListCap == 10
ChallengeConfigsCap == 10
LeaderboardCap == 25
PlayerChallengesCap == 10
MatchIdsCap == 10
TimelineCap == 20

(* the wins and losses of each entry: as given, else 1 and 1 for a full
   object and neither key for an empty one *)
RecordsOf(p) ==
    IF p.wl # <<>> THEN p.wl
    ELSE [i \in 1..p.n |-> IF p.elem = "obj" THEN LeagueEntry(1, 1) ELSE BareEntry]

(* the nearest integer to num / den, den > 0 *)
RoundDiv(num, den) == (2 * num + den) \div (2 * den)

WinRate_WinsPerLoss(wins, losses) ==
    IF losses > 0 THEN RoundDiv(1000 * wins, losses) ELSE 0

(* `(wins / (wins + losses) * 100) if (wins + losses) > 0 else 0`, in the
   tenths of a percent that `{winrate:.1f}` prints *)
WinRate(wins, losses) ==
    IF (wins + losses) > 0 THEN RoundDiv(1000 * wins, wins + losses) ELSE 0

(* f"{winrate:.1f}%" *)
Rate(tenths) == [k |-> "rate", s |-> "%", n |-> tenths]

(* the first n entries, each with its `{wins}W/{losses}L ({winrate:.1f}%)` *)
LeagueLines(records, n) ==
    [k \in 1..(6 * n) |->
        LET i == ((k - 1) \div 6) + 1
            wins == records[i].wins
            losses == records[i].losses
        IN  CASE (k - 1) % 6 = 0 -> Entry(i)
              [] (k - 1) % 6 = 1 -> Num(wins)
              [] (k - 1) % 6 = 2 -> Lit("W/")
              [] (k - 1) % 6 = 3 -> Num(losses)
              [] (k - 1) % 6 = 4 -> Lit("L (")
              [] OTHER -> Rate(WinRate(wins, losses))]

format_league_list(p) ==
    DictFormat(p, FieldItemsRaise(p),
        <<Get(p, "tier", "N/A"), Lit(" LEAGUE"), Lit("League ID: "), Get(p, "leagueId", "N/A"),
          Lit("Total Players: "), Num(p.n), Lit("TOP PLAYERS:")>>
        \o LeagueLines(RecordsOf(p), Min(p.n, LeagueListCap)))

format_league_entries(p) ==
    ListFormat(p, <<Lit("No ranked entries found for this player.")>>, ItemsRaise(p),
        <<Lit("RANKED LEAGUE ENTRIES"), Lit("Total Queues: "), Num(p.n)>>
        \o LeagueLines(RecordsOf(p), p.n))

(* configs whose state is 'ENABLED': a full object is, the empty one is not *)
EnabledCount(p) == IF p.elem = "obj" THEN p.n ELSE 0

format_challenge_configs(p) ==
    ListFormat(p, <<Lit("No challenge configurations found.")>>, ItemsRaise(p),
        <<Lit("CHALLENGE CONFIGURATIONS"), Lit("Total Challenges: "), Num(p.n),
          Lit("ENABLED: "), Num(EnabledCount(p)), Lit(" challenges"),
          Lit("SAMPLE ENABLED CHALLENGES:")>>
        \o Entries(Min(EnabledCount(p), ChallengeConfigsCap)))

format_challenge_config(p) ==
    LET t == TwoTimes(FieldTimestamp(p, 1), FieldTimestamp(p, 2)) IN
    DictFormat(p, t.exc,
        <<Lit("CHALLENGE DETAILS"), Lit("Name: "), Get(p, "name", "Challenge N/A"),
          Lit("ID: "), Get(p, "id", "N/A"), Lit("Status: "), Get(p, "state", "N/A"),
          Lit("Start Time: ")>> \o t.a \o <<Lit("End Time: ")>> \o t.b
        \o <<Lit("THRESHOLDS:")>>)

(* level.upper() *)
Upper(level) == IF level = "master" THEN "MASTER" ELSE level

(* leaderboard_data[:25] of a dict raises; of a string yields characters,
   whose .get raises *)
format_challenge_leaderboard(p, level) ==
    ListFormat(p, <<Lit("No "), Str(level), Lit(" players found for this challenge.")>>,
        IF p.t = "obj" THEN "TypeError" ELSE ItemsRaise(p),
        <<Str(Upper(level)), Lit(" CHALLENGE LEADERBOARD"), Lit("Total Players: "), Num(p.n),
          Lit("TOP PLAYERS:")>>
        \o Entries(Min(p.n, LeaderboardCap)))

format_player_challenges(p) ==
    LET achieved_time == ItemTimestamp(p, 1)
        exc == ConversionError(achieved_time)
        achieved ==
            IF achieved_time = TsZero \/ exc # "" THEN <<Lit("In Progress")>>
            ELSE <<DateOnly(achieved_time)>>
    IN  DictFormat(p,
            IF FieldItemsRaise(p) # "" THEN FieldItemsRaise(p)
            ELSE IF p.n > 0 /\ ~Caught(exc) THEN exc ELSE "",
            <<Lit("PLAYER CHALLENGE SUMMARY"), Lit("Overall Level: "), Get(p, "level", "NONE"),
              Lit("Active Challenges: "), Num(p.n), Lit("TOP CHALLENGES BY PROGRESS:")>>
            \o EntriesWith(Min(p.n, PlayerChallengesCap), <<Lit("Achieved: ")>> \o achieved))

format_platform_status(p) ==
    DictFormat(p, FieldItemsRaise(p),
        <<Lit("PLATFORM STATUS"), Lit("Platform: "), Get(p, "name", "N/A")>>
        \o (IF p.n > 0
            THEN <<Lit("Current Status: ISSUES DETECTED"), Lit("ACTIVE MAINTENANCES ("), Num(p.n), Lit("):")>>
                 \o Entries(p.n)
            ELSE <<Lit("Current Status: OPERATIONAL"), Lit("No active maintenances or incidents")>>))

get_routing_region_NoDefault(platform_region) ==
    IF platform_region \in DOMAIN PLATFORM_TO_ROUTING
    THEN PLATFORM_TO_ROUTING[platform_region]
    ELSE platform_region

get_routing_region(platform_region) ==
    IF platform_region \in DOMAIN PLATFORM_TO_ROUTING
    THEN PLATFORM_TO_ROUTING[platform_region]
    ELSE "americas"

(* match_ids[:10] of a dict raises; a string is sliced and enumerated by
   character; items are rendered with f"{match_id}", whatever their type *)
format_match_ids(p, puuid) ==
    ListFormat(p, <<Lit("No matches found for PUUID: "), Str(puuid), Lit("...")>>,
        IF p.t = "obj" \/ p.t = "num" THEN "TypeError" ELSE "",
        <<Lit("MATCH HISTORY"), Lit("PUUID: "), Str(puuid), Lit("..."),
          Lit("Total Matches: "), Num(p.n), Lit("RECENT MATCH IDs:")>>
        \o Entries(Min(p.n, MatchIdsCap))
        \o (IF p.n > MatchIdsCap
            THEN <<Lit("... and "), Num(p.n - MatchIdsCap), Lit(" more matches")>>
            ELSE <<>>))

(* team_100 and team_200: the participants with teamId 100 and with
   teamId 200 *)
Team100(p) == EntriesOf(TeamIds(p), {100})
Team200(p) == EntriesOf(TeamIds(p), {200})

(* f"{game_duration // 60}:{game_duration % 60:02d}" (or its millisecond
   form): the exception of the arithmetic, and the string *)
DurationError(v) == IF v = TsText THEN "TypeError" ELSE ""
DurationStr(v) == [k |-> "duration", s |-> v, n |-> 0]

format_match_detail(p) ==
    LET game_creation == FieldTimestamp(p, 1)
        game_duration == FieldTimestamp(p, 2)
        t == SharedTry(ConversionError(game_creation), DurationError(game_duration),
                       Converted(game_creation, "N/A"), <<DurationStr(game_duration)>>,
                       EpochOf(game_creation), <<Str(game_duration), Lit("s")>>)
    IN
    DictFormat(p,
        IF t.exc # "" THEN t.exc ELSE IF p.tm = "nokey" THEN "KeyError" ELSE FieldItemsRaise(p),
        <<Lit("MATCH DETAILS"), Lit("Match ID: "), Get(p, "matchId", "N/A"),
          Lit("Created: ")>> \o t.a \o <<Lit("Duration: ")>> \o t.b
        \o <<Lit("Participants: "), Num(p.n), Lit("TEAM RESULTS:"),
          Lit("TEAM 1 (Blue Side): "), Lit(IF p.tm = "ok" THEN "VICTORY" ELSE "DEFEAT")>>
        \o Team100(p)
        \o <<Lit("TEAM 2 (Red Side): "), Lit("DEFEAT")>>
        \o Team200(p)
        \o <<Lit("OBJECTIVES:")>>)

(* the frames of a timeline: as given, else a full frame is the i-th frame
   with one CHAMPION_KILL and an empty frame has no events *)
FramesOf(p) ==
    IF p.frames # <<>> THEN p.frames
    ELSE [i \in 1..p.n |->
            TimelineFrame(i * FrameInterval, "CHAMPION_KILL", IF p.elem = "obj" THEN 1 ELSE 0)]

(* an event of the timeline: id is its position among all events of all
   frames *)
TimelineEvent(timestamp, type, id) == [timestamp |-> timestamp, type |-> type, id |-> id]

(* the events of the frames from frame i on, the first of them being the
   event number first *)
RECURSIVE AllEvents(_, _, _)
AllEvents(frames, i, first) ==
    IF i > Len(frames) THEN <<>>
    ELSE [j \in 1..frames[i].count |->
             TimelineEvent(frames[i].timestamp, frames[i].type, first + j - 1)]
         \o AllEvents(frames, i + 1, first + frames[i].count)

TimelineAllowList == {"CHAMPION_KILL", "ELITE_MONSTER_KILL", "BUILDING_KILL", "CHAMPION_SPECIAL_KILL"}

(* important_events before the sort *)
ImportantEvents(p) ==
    SelectSeq(AllEvents(FramesOf(p), 1, 1), LAMBDA ev : ev.type \in TimelineAllowList)

(* ev put into the sorted sequence s behind every event whose timestamp is
   not larger *)
RECURSIVE InsertByTimestamp(_, _)
InsertByTimestamp(s, ev) ==
    IF s = <<>> THEN <<ev>>
    ELSE IF s[Len(s)].timestamp <= ev.timestamp THEN Append(s, ev)
    ELSE Append(InsertByTimestamp(SubSeq(s, 1, Len(s) - 1), ev), s[Len(s)])

(* important_events.sort(key=lambda x: x['timestamp']): a stable sort *)
RECURSIVE SortByTimestamp(_)
SortByTimestamp(s) ==
    IF s = <<>> THEN <<>>
    ELSE InsertByTimestamp(SortByTimestamp(SubSeq(s, 1, Len(s) - 1)), s[Len(s)])

(* the time of an event line, mm:ss of a millisecond timestamp *)
TimeStr(timestamp) ==
    [k |-> "time", s |-> "", n |-> (timestamp \div 60000) * 100 + (timestamp % 60000) \div 1000]

(* the line of one event: the if / elif chain has a branch for three of the
   four kept types *)
RECURSIVE EventLines(_)
EventLines(evs) ==
    IF evs = <<>> THEN <<>>
    ELSE (IF evs[1].type \in {"CHAMPION_KILL", "ELITE_MONSTER_KILL", "BUILDING_KILL"}
          THEN <<TimeStr(evs[1].timestamp), Entry(evs[1].id)>>
          ELSE <<>>)
         \o EventLines(Tail(evs))

format_match_timeline(p) ==
    LET sorted == SortByTimestamp(ImportantEvents(p)) IN
    DictFormat(p, FieldItemsRaise(p),
        <<Lit("MATCH TIMELINE"), Lit("Match ID: "), Get(p, "matchId", "N/A"),
          Lit("Total Frames: "), Num(Len(FramesOf(p))), Lit("KEY EVENTS:")>>
        \o EventLines(SubSeq(sorted, 1, Min(Len(sorted), TimelineCap)))
        \o (IF Len(sorted) > TimelineCap
            THEN <<Lit("... and "), Num(Len(sorted) - TimelineCap), Lit(" more events")>>
            ELSE <<>>))

(* ------------------------------------------------------------------ tools *)
Tool(fmt, nodata, validates, routes, default) ==
    [fmt |-> fmt, nodata |-> nodata, validates |-> validates, routes |-> routes, default |-> default]

(* every @mcp.tool() of the module: the formatter it calls, its `not data`
   message, whether it checks region against LOL_REGIONS, whether it
   translates region with get_routing_region, and its default region *)
TOOLS ==
    [t \in {"get_account_by_puuid", "get_account_by_riot_id"} |->
        Tool("format_account", "Unable to fetch account data.", FALSE, FALSE, "americas")] @@
    [t \in {"get_active_shard"} |->
        Tool("active_shard_text", "Unable to fetch active shard data.", FALSE, FALSE, "americas")] @@
    [t \in {"get_active_region"} |->
        Tool("active_region_text", "Unable to fetch active region data.", FALSE, FALSE, "americas")] @@
    [t \in {"get_active_game"} |->
        Tool("format_active_game", "Unable to fetch active game data.", TRUE, FALSE, "na1")] @@
    [t \in {"get_featured_games"} |->
        Tool("format_featured_games", "Unable to fetch featured games data.", TRUE, FALSE, "na1")] @@
    [t \in {"get_summoner_by_puuid", "get_summoner_by_account_id",
            "get_summoner_by_summoner_id", "get_summoner_by_rso_puuid"} |->
        Tool("format_summoner", "Unable to fetch summoner data.", TRUE, FALSE, "na1")] @@
    [t \in {"get_champion_rotation"} |->
        Tool("format_champion_rotation", "Unable to fetch champion rotation data.", TRUE, FALSE, "na1")] @@
    [t \in {"get_clash_players_by_puuid"} |->
        Tool("format_clash_player", "Unable to fetch Clash player data.", TRUE, FALSE, "na1")] @@
    [t \in {"get_clash_team"} |->
        Tool("format_clash_team", "Unable to fetch Clash team data.", TRUE, FALSE, "na1")] @@
    [t \in {"get_clash_tournaments"} |->
        Tool("format_clash_tournaments", "Unable to fetch Clash tournaments data.", TRUE, FALSE, "na1")] @@
    [t \in {"get_clash_tournament_by_team", "get_clash_tournament_by_id"} |->
        Tool("format_clash_tournament", "Unable to fetch Clash tournament data.", TRUE, FALSE, "na1")] @@
    [t \in {"get_challenger_league"} |->
        Tool("format_league_list", "Unable to fetch challenger league data.", TRUE, FALSE, "na1")] @@
    [t \in {"get_grandmaster_league"} |->
        Tool("format_league_list", "Unable to fetch grandmaster league data.", TRUE, FALSE, "na1")] @@
    [t \in {"get_master_league"} |->
        Tool("format_league_list", "Unable to fetch master league data.", TRUE, FALSE, "na1")] @@
    [t \in {"get_league_by_id"} |->
        Tool("format_league_list", "Unable to fetch league data.", TRUE, FALSE, "na1")] @@
    [t \in {"get_league_entries_by_puuid", "get_league_entries_by_summoner_id",
            "get_league_entries_by_division"} |->
        Tool("format_league_entries", "Unable to fetch league entries data.", TRUE, FALSE, "na1")] @@
    [t \in {"get_challenge_configs"} |->
        Tool("format_challenge_configs", "Unable to fetch challenge configs data.", TRUE, FALSE, "na1")] @@
    [t \in {"get_challenge_config"} |->
        Tool("format_challenge_config", "Unable to fetch challenge config data.", TRUE, FALSE, "na1")] @@
    [t \in {"get_challenge_leaderboard"} |->
        Tool("format_challenge_leaderboard", "Unable to fetch challenge leaderboard data.", TRUE, FALSE, "na1")] @@
    [t \in {"get_player_challenges"} |->
        Tool("format_player_challenges", "Unable to fetch player challenges data.", TRUE, FALSE, "na1")] @@
    [t \in {"get_platform_status"} |->
        Tool("format_platform_status", "Unable to fetch platform status data.", TRUE, FALSE, "na1")] @@
    [t \in {"get_match_ids_by_puuid"} |->
        Tool("format_match_ids", "Unable to fetch match IDs.", TRUE, TRUE, "na1")] @@
    [t \in {"get_match_details"} |->
        Tool("format_match_detail", "Unable to fetch match details.", TRUE, TRUE, "na1")] @@
    [t \in {"get_match_timeline"} |->
        Tool("format_match_timeline", "Unable to fetch match timeline.", TRUE, TRUE, "na1")]

ToolNames == DOMAIN TOOLS

AccountTools == {"get_account_by_puuid", "get_account_by_riot_id", "get_active_shard", "get_active_region"}
PlatformTools == ToolNames \ AccountTools
MatchTools == {"get_match_ids_by_puuid", "get_match_details", "get_match_timeline"}

(* the first 8 characters of the puuid argument, puuid[:8] *)
Puuid8 == "abcdefgh"

(* the formatter named f applied to data *)
Format(f, data, level) ==
    CASE f = "format_account" -> format_account(data)
      [] f = "active_shard_text" -> active_shard_text(data)
      [] f = "active_region_text" -> active_region_text(data)
      [] f = "format_active_game" -> format_active_game(data)
      [] f = "format_featured_games" -> format_featured_games(data)
      [] f = "format_summoner" -> format_summoner(data)
      [] f = "format_champion_rotation" -> format_champion_rotation(data)
      [] f = "format_clash_player" -> format_clash_player(data)
      [] f = "format_clash_team" -> format_clash_team(data)
      [] f = "format_clash_tournaments" -> format_clash_tournaments(data)
      [] f = "format_clash_tournament" -> format_clash_tournament(data)
      [] f = "format_league_list" -> format_league_list(data)
      [] f = "format_league_entries" -> format_league_entries(data)
      [] f = "format_challenge_configs" -> format_challenge_configs(data)
      [] f = "format_challenge_config" -> format_challenge_config(data)
      [] f = "format_challenge_leaderboard" -> format_challenge_leaderboard(data, level)
      [] f = "format_player_challenges" -> format_player_challenges(data)
      [] f = "format_platform_status" -> format_platform_status(data)
      [] f = "format_match_ids" -> format_match_ids(data, Puuid8)
      [] f = "format_match_detail" -> format_match_detail(data)
      [] f = "format_match_timeline" -> format_match_timeline(data)

RegionValid_AcceptsRouting(tool, region) ==
    ~TOOLS[tool].validates \/ region \in Range(LOL_REGIONS) \cup Range(MATCH_ROUTING_REGIONS)

(* `if region not in LOL_REGIONS`, present in every tool but the account ones *)
RegionValid(tool, region) ==
    ~TOOLS[tool].validates \/ region \in Range(LOL_REGIONS)

InvalidRegionError(region) ==
    <<Lit("Error: "), Lit("Invalid region '"), Str(region), Lit("'. Valid regions: ")>>
    \o Join(LOL_REGIONS)

(* `if level.upper() not in ['MASTER', 'GRANDMASTER', 'CHALLENGER']` *)
LevelValid(tool, level) ==
    tool # "get_challenge_leaderboard" \/ Upper(level) \in Range(CHALLENGE_LEVELS)

InvalidLevelError(level) ==
    <<Lit("Error: "), Lit("Invalid level '"), Str(level),
      Lit("'. Valid levels: MASTER, GRANDMASTER, CHALLENGER")>>

(* RIOT_API_BASE.format(region=...): the host the request goes to *)
Host(tool, region) ==
    IF TOOLS[tool].routes THEN get_routing_region(region) ELSE region

(* the tool after `data = await make_riot_request(url)` *)
ToolFinish(tool, level, data) ==
    IF Falsy(data) THEN Ret(<<Lit(TOOLS[tool].nodata)>>)
    ELSE Format(TOOLS[tool].fmt, data, level)

(* ------------------------------------------------------------ arguments *)
(* the region argument left out of the call *)
Omitted == "<omitted>"

RegionArgs == Range(LOL_REGIONS) \cup Range(MATCH_ROUTING_REGIONS) \cup {"mars", Omitted}

DefaultRegion_Unified(tool) == "na1"

(* the default of the tool's region parameter: `region: str = "americas"` in
   the account tools, `region: str = "na1"` in all others *)
DefaultRegion(tool) == TOOLS[tool].default

(* the value the region parameter is bound to *)
BoundRegion(tool, region) == IF region = Omitted THEN DefaultRegion(tool) ELSE region

NoRiotId == Account("", "")

(* game_name and tag_line, the arguments of get_account_by_riot_id only *)
RiotIdsOf(tool) == IF tool = "get_account_by_riot_id" THEN RiotIds ELSE {NoRiotId}
LevelArgs == {"MASTER", "master", "GRANDMASTER", "CHALLENGER", "GOLD"}
LevelsOf(tool) == IF tool = "get_challenge_leaderboard" THEN LevelArgs ELSE {""}
KeyValues == {"<None>", "", "RGAPI-key"}

(* Python's None as a token, and `if value:` of None or a string *)
NoneTok == [k |-> "none", s |-> "", n |-> 0]
Truthy(v) == v # <<NoneTok>> /\ v # <<Str("")>>

(* the optional filters of get_match_ids_by_puuid, each None, a number or a
   string, and its paging arguments *)
Filters(start_time, end_time, queue_, match_type, start, count) ==
    [start_time |-> start_time, end_time |-> end_time, queue |-> queue_,
     match_type |-> match_type, start |-> start, count |-> count]

(* the defaults of the signature: `start_time: int = None, end_time: int =
   None, queue: int = None, match_type: str = None, start: int = 0,
   count: int = 20` *)
DefaultFilters == Filters(NoneTok, NoneTok, NoneTok, NoneTok, 0, 20)

CallWith(tool, region, level, id, omitted, filters) ==
    [tool |-> tool, region |-> region, level |-> level, id |-> id, omitted |-> omitted,
     filters |-> filters]

Call(tool, region, level, id, omitted) ==
    CallWith(tool, region, level, id, omitted, DefaultFilters)
NoCall == Call("", "", "", NoRiotId, FALSE)

(* the GET's URL: its host and the arguments interpolated into its path *)
(* one `name=value` of the query string *)
Param(name, value) == [name |-> name, value |-> value]

RequestWith(tool, host, id, query) ==
    [tool |-> tool, host |-> host, id |-> id, query |-> query]

Request(tool, host, id) == RequestWith(tool, host, id, <<>>)
NoReq == Request("", "", NoRiotId)

(* the frame of one of the concurrently running invocations: its position,
   arguments, request, the upstream's answer in flight, the response it
   received, its result, and the API key value it read *)
Frame(p, c, r, answer, rsp, res, key) ==
    [pc |-> p, cur |-> c, req |-> r, answer |-> answer, resp |-> rsp, result |-> res, key |-> key]
KeyUnread == "<unread>"
IdleFrame == Frame("idle", NoCall, NoReq, NoResp, NoResp, NoResult, KeyUnread)
Slots == 1..MaxConc

PureCall(fn, region, payload, level) == [fn |-> fn, region |-> region, payload |-> payload, level |-> level]
NoPureCall == PureCall("", "", JNull, "")
FormatterNames == {TOOLS[t].fmt : t \in ToolNames}

(* ------------------------------------------------------------ chat client *)
(* sys.argv[1:] and the GOOGLE_API_KEY values the process is started with *)
ArgvValues == {<<>>, <<"server.py">>, <<"missing.py">>, <<"server.sh">>}
GoogleKeyValues == {"<None>", "", "AIza-key"}

(* server_path.exists() and server_script_path.endswith('.py') *)
ExistingPaths == {"server.py", "server.sh"}
EndsWithPy(path) == path \in {"server.py", "missing.py"}

(* the fields of a LeagueMCPClient: mcp_client, agent (not None), tools (a
   retrieved list), is_connected, loop ("none", "running", "stopped") *)
ClientObj(constructed, mcp_client, agent, tools, is_connected, loop) ==
    [constructed |-> constructed, mcp_client |-> mcp_client, agent |-> agent,
     tools |-> tools, is_connected |-> is_connected, loop |-> loop]
NoClient == ClientObj(FALSE, FALSE, FALSE, FALSE, FALSE, "none")
NewClient == ClientObj(TRUE, FALSE, FALSE, FALSE, FALSE, "none")

(* a gradio ChatMessage; title is the metadata title's tool, "" without
   metadata.  The emoji the program puts in front of its texts are left out
   of the literals. *)
ChatMessage(role, content, title) == [role |-> role, content |-> content, title |-> title]

(* an item of message_queue: ("tool_start", tool_name, input_str),
   ("tool_end", output) or ("tool_error", str(error)).  name is the
   tool_name of a tool_start; out tells whether the output of a tool_end is a
   short string, a string of more than 300 characters or not a string; by is
   the tool whose execution emitted the event and call the generate_response
   call whose agent run emitted it, neither of which the item carries *)
Event(type, name, out, by, call) ==
    [type |-> type, name |-> name, out |-> out, by |-> by, call |-> call]

AgentTools == {"get_account_by_riot_id", "get_match_details"}
OutputKinds == {"short", "long", "nonstr"}
QueryValues == {"", "  ", "rank of Faker"}
ExcTexts == {"", "boom"}

(* query.strip() *)
Strip(q) == IF q = "  " THEN "" ELSE q

(* one generate_response call: the generator's position, its query and
   history list, the query thread ("none", "running", "dead"),
   result_container, current_tool, the tools the agent is executing, the
   events the agent has emitted, the messages handed to agent.ainvoke; base
   is the length of the history when the call began, raised the places where
   an exception was raised during the call *)
Gen(p, query, history, base, thread, res, error, current_tool, running, emitted, raised) ==
    [pc |-> p, query |-> query, history |-> history, base |-> base, thread |-> thread,
     result |-> res, error |-> error, current_tool |-> current_tool,
     running |-> running, emitted |-> emitted, raised |-> raised, messages |-> <<>>]
IdleGen == Gen("idle", "", <<>>, 0, "none", <<NoneTok>>, <<NoneTok>>, "", {}, 0, {})

(* the generate_response calls that can be running on the one client, and
   the one that runs when the user waits for each answer *)
Gens == {1, 2}
OneAtATime == {1}

(* ---------------------------------------------------------------- actions *)
Init ==
    /\ apiKey \in KeyValues
    /\ pc = "idle"
    /\ cur = NoCall
    /\ calls = 0
    /\ req = NoReq
    /\ resp = NoResp
    /\ result = NoResult
    /\ served = 0
    /\ fcall = NoPureCall
    /\ fres = NoResult
    /\ inv = [i \in Slots |-> IdleFrame]
    /\ argv = <<>>
    /\ googleKey = "<None>"
    /\ mainpc = "off"
    /\ exitStatus = -1
    /\ stdout = <<>>
    /\ client = NoClient
    /\ queue = <<>>
    /\ gen = [g \in Gens |-> IdleGen]

(* a tool is invoked and runs to its first suspension or to its return *)
ToolCall(tool, regionArg, level, id) ==
    LET region == BoundRegion(tool, regionArg) IN
    /\ pc = "idle"
    /\ served < MaxServed
    /\ cur' = Call(tool, region, level, id, regionArg = Omitted)
    /\ resp' = NoResp
    /\ IF ~RegionValid(tool, region)
       THEN /\ result' = Ret(InvalidRegionError(region))
            /\ pc' = "done" /\ calls' = 0 /\ req' = NoReq /\ served' = served + 1
       ELSE IF ~LevelValid(tool, level)
       THEN /\ result' = Ret(InvalidLevelError(level))
            /\ pc' = "done" /\ calls' = 0 /\ req' = NoReq /\ served' = served + 1
       ELSE IF KeyMissing(apiKey)
       THEN /\ result' = ToolFinish(tool, level, NoKeyError)
            /\ pc' = "done" /\ calls' = RequestsIssued(apiKey)
            /\ req' = NoReq /\ served' = served + 1
       ELSE /\ result' = NoResult
            /\ pc' = "awaiting" /\ calls' = RequestsIssued(apiKey)
            /\ req' = Request(tool, Host(tool, region), id) /\ served' = served
    /\ UNCHANGED <<apiKey, pureVars, concVars, clientVars>>

(* the GET completes (response, transport error or timeout) and the tool
   runs to its end *)
Respond(r) ==
    /\ pc = "awaiting"
    /\ resp' = r
    /\ result' = ToolFinish(cur.tool, cur.level, make_riot_request(r))
    /\ pc' = "done"
    /\ served' = served + 1
    /\ UNCHANGED <<apiKey, cur, calls, req, pureVars, concVars, clientVars>>

(* the result is handed to the caller and the invocation's frame is dropped *)
Return ==
    /\ pc = "done"
    /\ pc' = "idle"
    /\ cur' = NoCall
    /\ calls' = 0
    /\ req' = NoReq
    /\ resp' = NoResp
    /\ result' = NoResult
    /\ UNCHANGED <<apiKey, served, pureVars, concVars, clientVars>>

Next ==
    \/ \E tool \in ToolNames, region \in RegionArgs :
         \E level \in LevelsOf(tool), id \in RiotIdsOf(tool) :
           ToolCall(tool, region, level, id)
    \/ \E r \in Responses : Respond(r)
    \/ Return

Spec == Init /\ [][Next]_vars

(* the formatters that convert an epoch-millisecond timestamp *)
TimestampFormatters ==
    {"format_summoner", "format_clash_tournaments", "format_clash_tournament",
     "format_challenge_config", "format_player_challenges", "format_match_detail"}

(* the formatters that print a win rate *)
LeagueFormatters == {"format_league_list", "format_league_entries"}

(* direct calls of the module's pure functions *)
CallRouting(region) ==
    /\ fcall = NoPureCall
    /\ fcall' = PureCall("get_routing_region", region, JNull, "")
    /\ fres' = Ret(<<Str(get_routing_region(region))>>)
    /\ UNCHANGED <<apiKey, serverVars, concVars, clientVars>>

CallFormatter(f, payload, level) ==
    /\ fcall = NoPureCall
    /\ fcall' = PureCall(f, "", payload, level)
    /\ fres' = Format(f, payload, level)
    /\ UNCHANGED <<apiKey, serverVars, concVars, clientVars>>

NextPure ==
    \/ \E region \in RegionArgs \ {Omitted} : CallRouting(region)
    \/ \E f \in FormatterNames, payload \in Payloads :
         \E level \in (IF f = "format_challenge_leaderboard" THEN LevelArgs ELSE {""}) :
           CallFormatter(f, payload, level)
    \/ \E payload \in TimelinePayloads : CallFormatter("format_match_timeline", payload, "")
    \/ \E f \in TimestampFormatters, payload \in TimestampPayloads : CallFormatter(f, payload, "")
    \/ \E f \in LeagueFormatters, payload \in LeaguePayloads : CallFormatter(f, payload, "")

SpecPure == Init /\ [][NextPure]_vars

(* ------------------------------------------- concurrent tool invocations *)
(* the inputs of the concurrently running invocations *)
ConcTools == {"get_summoner_by_puuid", "get_match_details"}
ConcRegions == {"euw1", "mars"}
ConcResponses ==
    {Response("http", 404, "", JNull),
     Response("http", 200, "<json>", JObj(1, "obj", TRUE, "ok")),
     Response("exc", 0, "ReadTimeout", JNull)}

Waiter_First(i) == 1

(* the coroutine resumed when the GET of invocation i completes: the one
   that awaits it, on its own `async with httpx.AsyncClient()` *)
Waiter(i) == i

(* invocation i runs from its call to the `await client.get(...)` or to an
   early return; API_KEY is read inside make_riot_request *)
Invoke(i, tool, region) ==
    LET c == Call(tool, region, "", NoRiotId, FALSE) IN
    /\ inv[i].pc = "idle"
    /\ inv' = [inv EXCEPT ![i] =
          IF ~RegionValid(tool, region)
          THEN Frame("done", c, NoReq, NoResp, NoResp, Ret(InvalidRegionError(region)), KeyUnread)
          ELSE IF KeyMissing(apiKey)
          THEN Frame("done", c, NoReq, NoResp, NoResp, ToolFinish(tool, "", NoKeyError), apiKey)
          ELSE Frame("awaiting", c, Request(tool, Host(tool, region), NoRiotId),
                     NoResp, NoResp, NoResult, apiKey)]
    /\ UNCHANGED <<apiKey, serverVars, pureVars, clientVars>>

(* the upstream answers the request of invocation i *)
Answer(i, r) ==
    /\ inv[i].pc = "awaiting"
    /\ inv[i].answer = NoResp
    /\ inv' = [inv EXCEPT ![i].answer = r]
    /\ UNCHANGED <<apiKey, serverVars, pureVars, clientVars>>

(* the answer to request i arrives and the coroutine waiting for it runs to
   its end *)
Deliver(i) ==
    LET j == Waiter(i) IN
    /\ inv[i].pc = "awaiting"
    /\ inv[i].answer # NoResp
    /\ inv[j].pc = "awaiting"
    /\ inv' = [inv EXCEPT
          ![j].pc = "done",
          ![j].resp = inv[i].answer,
          ![j].result = ToolFinish(inv[j].cur.tool, inv[j].cur.level,
                                   make_riot_request(inv[i].answer))]
    /\ UNCHANGED <<apiKey, serverVars, pureVars, clientVars>>

(* invocation i hands its result to its caller *)
Finish(i) ==
    /\ inv[i].pc = "done"
    /\ inv' = [inv EXCEPT ![i] = IdleFrame]
    /\ UNCHANGED <<apiKey, serverVars, pureVars, clientVars>>

NextConc ==
    \/ \E i \in Slots, tool \in ConcTools, region \in ConcRegions : Invoke(i, tool, region)
    \/ \E i \in Slots, r \in ConcResponses : Answer(i, r)
    \/ \E i \in Slots : Deliver(i)
    \/ \E i \in Slots : Finish(i)

SpecConc == Init /\ [][NextConc]_vars

(* ------------------------------------------------------ chat client: main *)
nonClientVars == <<apiKey, serverVars, pureVars, concVars>>

UsageText ==
    <<Lit("Usage: python client.py <path_to_league_server_script>"),
      Lit("Example: python client.py ../mcp-server/main.py")>>

HasServerArg_Always(args) == TRUE

(* `len(sys.argv) < 2` is false; sys.argv[0] is the script itself *)
HasServerArg(args) == ~(Len(args) + 1 < 2)

(* `if not google_api_key` *)
GoogleKeyMissing(k) == k \in {"<None>", ""}

(* the operating system starts `python client.py args` *)
Exec(args, gk) ==
    /\ mainpc = "off"
    /\ argv' = args
    /\ googleKey' = gk
    /\ mainpc' = "start"
    /\ UNCHANGED <<exitStatus, stdout, client, queue, gen, nonClientVars>>

(* main(): the argument check; sys.exit(1) leaves main before its try *)
Main_CheckArgs ==
    /\ mainpc = "start"
    /\ IF ~HasServerArg(argv)
       THEN /\ stdout' = stdout \o UsageText
            /\ exitStatus' = 1
            /\ mainpc' = "exited"
       ELSE /\ stdout' = Append(stdout, Lit("Initializing League MCP Client..."))
            /\ exitStatus' = exitStatus
            /\ mainpc' = "construct"
    /\ UNCHANGED <<argv, googleKey, client, queue, gen, nonClientVars>>

(* client = LeagueMCPClient(): outside the try, so the ValueError of a
   missing GOOGLE_API_KEY ends the process with a traceback *)
Main_Construct ==
    /\ mainpc = "construct"
    /\ IF GoogleKeyMissing(googleKey)
       THEN /\ client' = client
            /\ exitStatus' = 1
            /\ mainpc' = "exited"
       ELSE /\ client' = NewClient
            /\ exitStatus' = exitStatus
            /\ mainpc' = "start_loop"
    /\ UNCHANGED <<argv, googleKey, stdout, queue, gen, nonClientVars>>

(* client._start_event_loop() *)
Main_StartLoop ==
    /\ mainpc = "start_loop"
    /\ stdout' = Append(stdout, Lit("Starting event loop..."))
    /\ client' = [client EXCEPT !.loop = "running"]
    /\ mainpc' = "connect"
    /\ UNCHANGED <<argv, googleKey, exitStatus, queue, gen, nonClientVars>>

ConnectOutcomes == {"ok", "get_tools_raises", "create_agent_raises"}

(* the exception connect_to_server(sys.argv[1]) ends with, "" if none *)
ConnectError(args, o) ==
    IF Len(args) < 1 THEN "IndexError"
    ELSE IF args[1] \notin ExistingPaths THEN "FileNotFoundError"
    ELSE IF ~EndsWithPy(args[1]) THEN "ValueError"
    ELSE IF o = "get_tools_raises" THEN "get_tools failed"
    ELSE IF o = "create_agent_raises" THEN "create_react_agent failed"
    ELSE ""

Connected_FlagFirst(c, args, o) ==
    LET err == ConnectError(args, o) IN
    IF err \in {"IndexError", "FileNotFoundError", "ValueError"} THEN c
    ELSE IF err = "get_tools failed" THEN [c EXCEPT !.mcp_client = TRUE, !.is_connected = TRUE]
    ELSE IF err = "create_react_agent failed"
    THEN [c EXCEPT !.mcp_client = TRUE, !.tools = TRUE, !.is_connected = TRUE]
    ELSE [c EXCEPT !.mcp_client = TRUE, !.tools = TRUE, !.agent = TRUE, !.is_connected = TRUE]

(* the client object after connect_to_server: each field is assigned when
   its statement is reached *)
Connected(c, args, o) ==
    LET err == ConnectError(args, o) IN
    IF err \in {"IndexError", "FileNotFoundError", "ValueError"} THEN c
    ELSE IF err = "get_tools failed" THEN [c EXCEPT !.mcp_client = TRUE]
    ELSE IF err = "create_react_agent failed" THEN [c EXCEPT !.mcp_client = TRUE, !.tools = TRUE]
    ELSE [c EXCEPT !.mcp_client = TRUE, !.tools = TRUE, !.agent = TRUE, !.is_connected = TRUE]

(* client._run_in_loop(client.connect_to_server(sys.argv[1])) and main's
   `except Exception` *)
Main_Connect(o) ==
    /\ mainpc = "connect"
    /\ client' = Connected(client, argv, o)
    /\ IF ConnectError(argv, o) # ""
       THEN /\ stdout' = stdout \o <<Lit("Connecting to MCP server..."),
                                     Lit("Error: "), Str(ConnectError(argv, o))>>
            /\ mainpc' = "cleanup"
       ELSE /\ stdout' = stdout \o <<Lit("Connecting to MCP server..."),
                                     Lit("Connected successfully!")>>
            /\ mainpc' = "launch"
    /\ UNCHANGED <<argv, googleKey, exitStatus, queue, gen, nonClientVars>>

(* create_gradio_interface(client) and interface.launch(...) *)
Main_Launch(o) ==
    /\ mainpc = "launch"
    /\ IF o = "raises"
       THEN /\ stdout' = stdout \o <<Lit("Launching Gradio interface..."),
                                     Lit("Error: "), Str("launch failed")>>
            /\ mainpc' = "cleanup"
       ELSE /\ stdout' = Append(stdout, Lit("Launching Gradio interface..."))
            /\ mainpc' = "serving"
    /\ UNCHANGED <<argv, googleKey, exitStatus, client, queue, gen, nonClientVars>>

(* the interface is closed while no query is being answered *)
Main_Stop ==
    /\ mainpc = "serving"
    /\ \A g \in Gens : gen[g].pc = "idle"
    /\ mainpc' = "cleanup"
    /\ UNCHANGED <<argv, googleKey, exitStatus, stdout, client, queue, gen, nonClientVars>>

(* finally: asyncio.run(client.cleanup()); main returns *)
Main_Cleanup ==
    /\ mainpc = "cleanup"
    /\ client' = [client EXCEPT !.mcp_client = FALSE,
                                !.loop = IF client.loop = "running" THEN "stopped" ELSE client.loop]
    /\ exitStatus' = 0
    /\ mainpc' = "exited"
    /\ UNCHANGED <<argv, googleKey, stdout, queue, gen, nonClientVars>>

(* ----------------------------------------- chat client: generate_response *)
mainVars == <<argv, googleKey, mainpc, exitStatus, stdout, client>>

UserMsg(q) == ChatMessage("user", <<Str(q)>>, "")

NotConnectedMsg ==
    ChatMessage("assistant", <<Lit("Not connected to MCP server. Please check connection.")>>, "")

ThinkingMsg ==
    ChatMessage("assistant",
        <<Lit("Let me help you with that League of Legends query. I'll use the available tools to get the information you need.")>>,
        "")

(* the first n characters of the text s *)
Head_(s, n) == [k |-> "head", s |-> s, n |-> n]

(* output[:300] + "..." if len(output) > 300 else output *)
DisplayOutput(out) ==
    IF out = "long" THEN <<Head_("<output>", 300), Lit("...")>> ELSE <<Str("<output>")>>

(* the chat histories gradio hands to generate_response: an empty chat and
   a chat holding an earlier turn with its placeholder, tool and answer
   messages *)
HistoryInputs ==
    {<<>>,
     <<UserMsg("who is Faker"), ThinkingMsg,
       ChatMessage("assistant", <<Lit("Tool returned: "), Str("<output>")>>, "get_account_by_riot_id"),
       ChatMessage("assistant", <<Str("<answer>")>>, "")>>}

IsAlive_Never(s) == FALSE

(* thread.is_alive() *)
IsAlive(s) == s.thread \in {"started", "agent"}

(* generate_response(history, query) up to the emptying of the queue: the
   blank-query return, the user message, the connection check and the
   placeholder message *)
G_Call(g, q, h) ==
    /\ mainpc = "serving"
    /\ gen[g].pc = "idle"
    /\ LET s == [gen[g] EXCEPT !.query = q, !.history = h, !.base = Len(h)]
           h1 == Append(h, UserMsg(q))
       IN  gen' = [gen EXCEPT ![g] =
             IF Strip(q) = ""
             THEN [s EXCEPT !.pc = "done"]
             ELSE IF ~client.is_connected
             THEN [s EXCEPT !.pc = "done", !.history = Append(h1, NotConnectedMsg)]
             ELSE [s EXCEPT !.pc = "clear", !.history = Append(h1, ThinkingMsg)]]
    /\ UNCHANGED <<mainVars, queue, nonClientVars>>

(* `while not self.message_queue.empty(): self.message_queue.get_nowait()` *)
G_Clear(g) ==
    /\ gen[g].pc = "clear"
    /\ queue' = <<>>
    /\ gen' = [gen EXCEPT ![g].pc = "start_thread"]
    /\ UNCHANGED <<mainVars, nonClientVars>>

(* thread.start(); a failure to start the thread reaches the outer
   `except Exception` of generate_response *)
G_StartThread(g, o) ==
    /\ gen[g].pc = "start_thread"
    /\ gen' = [gen EXCEPT ![g] =
          IF o = "raises"
          THEN [@ EXCEPT !.pc = "done", !.raised = @ \cup {"outer"},
                         !.history = Append(@,
                             ChatMessage("assistant",
                                 <<Lit("Error processing query: "), Str("can't start new thread")>>, ""))]
          ELSE [@ EXCEPT !.pc = "monitor", !.thread = "started"]]
    /\ UNCHANGED <<mainVars, queue, nonClientVars>>

(* history[:-1] if history else [] *)
HistoryWithoutCurrent(h) == IF h = <<>> THEN <<>> ELSE SubSeq(h, 1, Len(h) - 1)

(* the `continue` tests of process_query_async: a message with metadata, or
   whose content starts with the placeholder sentence, with "Using " (and
   holds "tool"), with "Tool returned:" or with "Tool error:" *)
Skipped(msg) ==
    \/ msg.title # ""
    \/ msg.content # <<>> /\ Head(msg.content) \in
          {Head(ThinkingMsg.content), Lit("Using "), Lit("Tool returned: "), Lit("Tool error: ")}

(* HumanMessage(content=...) and AIMessage(content=...) *)
LcMessage(type, content) == [type |-> type, content |-> content]

(* the messages converted from the history: user to human, assistant to ai *)
Converted_(h) ==
    LET kept == SelectSeq(h, LAMBDA msg : ~Skipped(msg) /\ msg.role \in {"user", "assistant"})
    IN  [i \in 1..Len(kept) |->
            LcMessage(IF kept[i].role = "user" THEN "human" ELSE "ai", kept[i].content)]

NeedsQuery_Always(msgs, query) == TRUE

(* `if not input_messages or input_messages[-1].content != query` *)
NeedsQuery(msgs, query) == msgs = <<>> \/ msgs[Len(msgs)].content # <<Str(query)>>

(* input_messages of process_query_async(query, history) *)
InputMessages(query, h) ==
    LET msgs == Converted_(h) IN
    IF NeedsQuery(msgs, query) THEN Append(msgs, LcMessage("human", <<Str(query)>>)) ELSE msgs

(* query_thread: run_query() up to the agent invocation.  exc is the text
   of the exception future.result() raises, "<none>" if it raises none *)
T_Run(g, exc) ==
    /\ gen[g].thread = "started"
    /\ gen' = [gen EXCEPT ![g] =
          IF client.loop = "none"
          THEN [@ EXCEPT !.thread = "dead", !.raised = @ \cup {"thread"},
                         !.error = <<Str("Event loop not started")>>]
          ELSE IF exc # "<none>"
          THEN [@ EXCEPT !.thread = "dead", !.raised = @ \cup {"thread"},
                         !.error = <<Str(exc)>>]
          ELSE IF ~client.agent
          THEN [@ EXCEPT !.thread = "dead",
                         !.result = <<Lit("Agent not initialized. Please connect to the MCP server first.")>>]
          ELSE [@ EXCEPT !.thread = "agent",
                         !.messages = InputMessages(gen[g].query,
                                                    HistoryWithoutCurrent(gen[g].history))]]
    /\ UNCHANGED <<mainVars, queue, nonClientVars>>

(* the agent starts a tool: ToolCallLogger.on_tool_start *)
Agent_ToolStart(g, tool) ==
    /\ gen[g].thread = "agent"
    /\ gen[g].emitted < MaxEvents
    /\ tool \notin gen[g].running
    /\ queue' = Append(queue, Event("tool_start", tool, "short", tool, g))
    /\ gen' = [gen EXCEPT ![g].running = @ \cup {tool}, ![g].emitted = @ + 1]
    /\ UNCHANGED <<mainVars, nonClientVars>>

(* a tool of the agent returns: ToolCallLogger.on_tool_end *)
Agent_ToolEnd(g, tool, out) ==
    /\ gen[g].thread = "agent"
    /\ tool \in gen[g].running
    /\ queue' = Append(queue, Event("tool_end", "", out, tool, g))
    /\ gen' = [gen EXCEPT ![g].running = @ \ {tool}]
    /\ UNCHANGED <<mainVars, nonClientVars>>

(* a tool of the agent raises: ToolCallLogger.on_tool_error *)
Agent_ToolError(g, tool) ==
    /\ gen[g].thread = "agent"
    /\ tool \in gen[g].running
    /\ queue' = Append(queue, Event("tool_error", "", "short", tool, g))
    /\ gen' = [gen EXCEPT ![g].running = @ \ {tool}]
    /\ UNCHANGED <<mainVars, nonClientVars>>

(* agent.ainvoke returns, with or without messages; the thread stores the
   string process_query_async returns and ends *)
Agent_Return(g, o) ==
    /\ gen[g].thread = "agent"
    /\ gen[g].running = {}
    /\ gen' = [gen EXCEPT ![g].thread = "dead",
                          ![g].result = IF o = "answer" THEN <<Str("<answer>")>>
                                        ELSE <<Lit("No response from agent")>>]
    /\ UNCHANGED <<mainVars, queue, nonClientVars>>

(* agent.ainvoke raises: process_query_async returns its error string *)
Agent_Raise(g, exc) ==
    /\ gen[g].thread = "agent"
    /\ gen' = [gen EXCEPT ![g].thread = "dead", ![g].running = {},
                          ![g].raised = @ \cup {"agent"},
                          ![g].result = <<Lit("Error processing query with agent: "), Str(exc)>>]
    /\ UNCHANGED <<mainVars, queue, nonClientVars>>

(* `while thread.is_alive():` *)
M_Check(g) ==
    /\ gen[g].pc = "monitor"
    /\ gen' = [gen EXCEPT ![g].pc = IF IsAlive(gen[g]) THEN "get" ELSE "final"]
    /\ UNCHANGED <<mainVars, queue, nonClientVars>>

(* the body of the monitoring loop for the item ev *)
Monitor(s, ev) ==
    CASE ev.type = "tool_start" ->
           [s EXCEPT !.current_tool = ev.name,
                     !.history = Append(@,
                         ChatMessage("assistant",
                             <<Lit("Using "), Str(ev.name), Lit(" tool with input: "), Str("<input>")>>,
                             ev.name))]
      [] ev.type = "tool_end" ->
           IF s.current_tool = "" THEN s
           ELSE IF ev.out = "nonstr" THEN [s EXCEPT !.raised = @ \cup {"monitor"}]
           ELSE [s EXCEPT !.current_tool = "",
                          !.history = Append(@,
                              ChatMessage("assistant",
                                  <<Lit("Tool returned: ")>> \o DisplayOutput(ev.out),
                                  s.current_tool))]
      [] ev.type = "tool_error" ->
           IF s.current_tool = "" THEN s
           ELSE [s EXCEPT !.current_tool = "",
                          !.history = Append(@,
                              ChatMessage("assistant",
                                  <<Lit("Tool error: "), Str("<error>")>>, s.current_tool))]

(* self.message_queue.get(timeout=0.1) and the loop body; with the queue
   empty the get ends with queue.Empty *)
M_Get(g) ==
    /\ gen[g].pc = "get"
    /\ IF queue = <<>>
       THEN /\ queue' = queue
            /\ gen' = [gen EXCEPT ![g].pc = "monitor"]
       ELSE /\ queue' = Tail(queue)
            /\ gen' = [gen EXCEPT ![g] = [Monitor(@, Head(queue)) EXCEPT !.pc = "monitor"]]
    /\ UNCHANGED <<mainVars, nonClientVars>>

(* thread.join() and the final response *)
G_Final(g) ==
    /\ gen[g].pc = "final"
    /\ gen' = [gen EXCEPT ![g].pc = "done",
                          ![g].history = Append(@,
                              ChatMessage("assistant",
                                  IF Truthy(gen[g].error)
                                  THEN <<Lit("Error: ")>> \o gen[g].error
                                  ELSE gen[g].result,
                                  ""))]
    /\ UNCHANGED <<mainVars, queue, nonClientVars>>

(* the generator is exhausted and its frame is dropped *)
G_Return(g) ==
    /\ gen[g].pc = "done"
    /\ gen' = [gen EXCEPT ![g] = IdleGen]
    /\ UNCHANGED <<mainVars, queue, nonClientVars>>

NextClient ==
    \/ \E args \in ArgvValues, gk \in GoogleKeyValues : Exec(args, gk)
    \/ Main_CheckArgs
    \/ Main_Construct
    \/ Main_StartLoop
    \/ \E o \in ConnectOutcomes : Main_Connect(o)
    \/ \E o \in {"ok", "raises"} : Main_Launch(o)
    \/ Main_Stop
    \/ Main_Cleanup
    \/ \E g \in OneAtATime, q \in QueryValues, h \in HistoryInputs : G_Call(g, q, h)
    \/ \E g \in OneAtATime : G_Clear(g)
    \/ \E g \in OneAtATime, o \in {"ok", "raises"} : G_StartThread(g, o)
    \/ \E g \in OneAtATime, exc \in {"<none>"} \cup ExcTexts : T_Run(g, exc)
    \/ \E g \in OneAtATime, tool \in AgentTools : Agent_ToolStart(g, tool)
    \/ \E g \in OneAtATime, tool \in AgentTools, out \in OutputKinds : Agent_ToolEnd(g, tool, out)
    \/ \E g \in OneAtATime, tool \in AgentTools : Agent_ToolError(g, tool)
    \/ \E g \in OneAtATime, o \in {"answer", "empty"} : Agent_Return(g, o)
    \/ \E g \in OneAtATime, exc \in ExcTexts : Agent_Raise(g, exc)
    \/ \E g \in OneAtATime : M_Check(g)
    \/ \E g \in OneAtATime : M_Get(g)
    \/ \E g \in OneAtATime : G_Final(g)
    \/ \E g \in OneAtATime : G_Return(g)

SpecClient == Init /\ [][NextClient]_vars

(* two browser sessions of the one interface after a start-up that
   succeeds: one generate_response call each, overlapping in time on the
   same client; the agent run of call 1 uses a tool, that of call 2 answers
   without one *)
NextTwoCalls ==
    \/ Exec(<<"server.py">>, "AIza-key")
    \/ Main_CheckArgs
    \/ Main_Construct
    \/ Main_StartLoop
    \/ Main_Connect("ok")
    \/ Main_Launch("ok")
    \/ \E g \in Gens : G_Call(g, "rank of Faker", <<>>)
    \/ \E g \in Gens : G_Clear(g)
    \/ \E g \in Gens : G_StartThread(g, "ok")
    \/ \E g \in Gens : T_Run(g, "<none>")
    \/ Agent_ToolStart(1, "get_match_details")
    \/ Agent_ToolEnd(1, "get_match_details", "short")
    \/ \E g \in Gens : Agent_Return(g, "answer")
    \/ \E g \in Gens : M_Check(g)
    \/ \E g \in Gens : M_Get(g)
    \/ \E g \in Gens : G_Final(g)

SpecTwoCalls == Init /\ [][NextTwoCalls]_vars

(* ----------------------------------------------------------- properties *)
Has(out, tok) == \E i \in 1..Len(out) : out[i] = tok

IsErrorString(res) ==
    res.kind = "return" /\ Len(res.out) > 0 /\ res.out[1] = Lit("Error: ")

NoDataString(tool) == Ret(<<Lit(TOOLS[tool].nodata)>>)

ConfigErrorString ==
    Ret(<<Lit("Error: "), Str("RIOT_API_KEY environment variable not set")>>)

(* the region set a tool's docstring declares *)
DeclaredRegions(tool) ==
    IF tool \in AccountTools THEN Range(ACCOUNT_REGIONS) ELSE Range(LOL_REGIONS)

ArgsValid == RegionValid(cur.tool, cur.region) /\ LevelValid(cur.tool, cur.level)

(* the process was started without a usable RIOT_API_KEY *)
KeyNotSet == apiKey \in {"<None>", ""}

Http2xx == resp.o = "http" /\ Is2xx(resp.status)

(* C1: every finished tool invocation, whatever the upstream outcome, ended
   by returning a string and not by raising *)
C1_AlwaysReturnsString ==
    pc = "done" => result.kind = "return"

(* C2: an invocation whose region is outside the tool's declared region set
   has finished with an error string that names the value and lists the
   declared set, and has issued no request *)
C2_InvalidRegionRejected ==
    (pc # "idle" /\ cur.region \notin DeclaredRegions(cur.tool)) =>
        /\ pc = "done"
        /\ calls = 0
        /\ IsErrorString(result)
        /\ Has(result.out, Str(cur.region))
        /\ \A r \in DeclaredRegions(cur.tool) : Has(result.out, Str(r))

(* C3 as stated: with the API key not set, every finished invocation,
   whatever its arguments, returned the configuration error and issued no
   request *)
C3_NoKeyAlwaysConfigError ==
    (KeyNotSet /\ pc = "done") =>
        (result = ConfigErrorString /\ calls = 0)

(* C3 amended: with the API key not set, no invocation issues a request or
   raises; one whose arguments pass validation returns the configuration
   error, one whose region or level is invalid returns that validation
   error *)
C3_NoKeyConfigError ==
    KeyNotSet =>
        /\ calls = 0 /\ req = NoReq /\ pc # "awaiting"
        /\ pc = "done" =>
              IF ArgsValid
              THEN result = ConfigErrorString
              ELSE /\ IsErrorString(result)
                   /\ result.out[2] \in {Lit("Invalid region '"), Lit("Invalid level '")}

C3_Witness ==
    /\ KeyNotSet /\ pc = "done" /\ served = 2
    /\ ArgsValid /\ result = ConfigErrorString

(* C4: after a non-2xx upstream status the tool returned a string that
   starts with the Error: marker and contains the status code and the
   response body text *)
C4_UpstreamErrorReported ==
    (pc = "done" /\ resp.o = "http" /\ ~Is2xx(resp.status)) =>
        /\ IsErrorString(result)
        /\ Has(result.out, Num(resp.status))
        /\ Has(result.out, Str(resp.text))

C4_Witness ==
    /\ pc = "done" /\ cur.tool = "get_league_entries_by_puuid"
    /\ resp.o = "http" /\ resp.status = 404
    /\ resp.text = "{status: {message: Data not found}}"
    /\ IsErrorString(result)

(* C5: after a 2xx answer whose body is empty or not JSON the tool returned
   its 'Unable to fetch ...' message *)
C5_MalformedBodyNoData ==
    (pc = "done" /\ Http2xx /\ resp.text \in MalformedTexts) =>
        result = NoDataString(cur.tool)

(* C6: an invocation issues at most one GET, exactly one once validation
   passed with the key set and none otherwise, and the GET's outcome,
   whatever it is, ends the invocation without another request *)
C6_AtMostOneRequest ==
    /\ [](/\ calls \in {0, 1}
          /\ pc = "awaiting" => calls = 1
          /\ pc = "done" =>
                calls = (IF ArgsValid /\ ~KeyNotSet THEN 1 ELSE 0))
    /\ [][pc = "awaiting" => (pc' = "done" /\ calls' = calls /\ req' = req)]_vars

C6_Witness ==
    /\ pc = "done" /\ resp.o = "exc" /\ resp.text = "ReadTimeout"
    /\ calls = 1 /\ IsErrorString(result)

(* C7: a platform-region tool given a region outside LOL_REGIONS has
   returned 'Error: Invalid region ...' with no request built, and every
   request of such a tool carries a region of LOL_REGIONS *)
C7_PlatformRegionChecked ==
    /\ (cur.tool \in PlatformTools /\ cur.region \notin Range(LOL_REGIONS)) =>
          /\ pc = "done" /\ req = NoReq /\ calls = 0
          /\ IsErrorString(result)
          /\ result.out[2] = Lit("Invalid region '")
          /\ result.out[3] = Str(cur.region)
    /\ (req # NoReq /\ req.tool \in PlatformTools) =>
          cur.region \in Range(LOL_REGIONS)

C7_Witness ==
    /\ pc = "done" /\ cur.tool = "get_match_details" /\ cur.region = "americas"
    /\ ~KeyNotSet /\ calls = 0 /\ IsErrorString(result)

(* C8: after a 2xx answer whose body is JSON null the tool returned its
   'Unable to fetch ...' message, which carries no Error: marker *)
C8_NullIsNoData ==
    (pc = "done" /\ Http2xx /\ resp.text \notin MalformedTexts /\ resp.parsed = JNull) =>
        /\ result = NoDataString(cur.tool)
        /\ ~Has(result.out, Lit("Error: "))

C8_Witness ==
    /\ pc = "done" /\ Http2xx /\ resp.text = "<json>" /\ resp.parsed = JNull
    /\ cur.tool = "get_match_ids_by_puuid" /\ result.kind = "return"

(* C9: get_routing_region returns the table's value for a platform region
   of PLATFORM_TO_ROUTING, 'americas' for any other, and always one of the
   four routing regions *)
C9_RoutingTotal ==
    fcall.fn = "get_routing_region" =>
        /\ fres.kind = "return"
        /\ fres.out[1].s \in Range(MATCH_ROUTING_REGIONS)
        /\ fcall.region \in DOMAIN PLATFORM_TO_ROUTING =>
              fres.out[1].s = PLATFORM_TO_ROUTING[fcall.region]
        /\ fcall.region \notin DOMAIN PLATFORM_TO_ROUTING =>
              fres.out[1].s = "americas"

C9_Witness ==
    /\ fcall.fn = "get_routing_region" /\ fcall.region = "mars"
    /\ fres = Ret(<<Str("americas")>>)

(* the display cap of a truncating formatter *)
CapOf(f) ==
    CASE f = "format_league_list" -> LeagueListCap
      [] f = "format_challenge_configs" -> ChallengeConfigsCap
      [] f = "format_challenge_leaderboard" -> LeaderboardCap
      [] f = "format_player_challenges" -> PlayerChallengesCap
      [] f = "format_match_ids" -> MatchIdsCap
      [] f = "format_match_timeline" -> TimelineCap

CappedFormatters ==
    {"format_league_list", "format_challenge_configs", "format_challenge_leaderboard",
     "format_player_challenges", "format_match_ids", "format_match_timeline"}

(* C10: a truncating formatter given a list longer than its cap renders exactly cap entries and a summary line with the number
   omitted, and never renders more entries than its cap *)
C10_TruncationSummary ==
    (fcall.fn \in CappedFormatters /\ fres.kind = "return") =>
        /\ CountEntries(fres.out) <= CapOf(fcall.fn)
        /\ fcall.payload.n > CapOf(fcall.fn) =>
              /\ CountEntries(fres.out) = CapOf(fcall.fn)
              /\ \E i \in 1..(Len(fres.out) - 1) :
                    /\ fres.out[i] = Lit("... and ")
                    /\ fres.out[i + 1] = Num(fcall.payload.n - CapOf(fcall.fn))

(* formatters whose payload is a JSON list *)
ListFormatters ==
    {"format_clash_player", "format_clash_tournaments", "format_league_entries",
     "format_challenge_configs", "format_challenge_leaderboard", "format_match_ids"}

(* the payload has the JSON type its formatter is written for, and its list
   items are objects: only keys can be missing *)
WellTyped(f, p) ==
    /\ p.elem # "str"
    /\ IF f \in ListFormatters THEN p.t = "list" ELSE p.t \in {"obj", "obj0"}

(* C11: a formatter given a payload of its JSON type in which any optional
   keys are absent returns a string; none fails on a missing key *)
C11_MissingKeysNeverFail ==
    (fcall.fn \in FormatterNames /\ WellTyped(fcall.fn, fcall.payload)) =>
        fres.kind = "return"

(* tokens a, b stand next to each other in out *)
HasLine(out, a, b) == \E i \in 1..(Len(out) - 1) : out[i] = a /\ out[i + 1] = b

(* C12: get_account_by_riot_id answered 200 with an account object has issued
   one GET to the host of its region argument and returned the lines
   'Game Name: <gameName>', 'Tag Line: <tagLine>' and
   'Riot ID: <gameName>#<tagLine>' with the values of the payload, whatever
   the game_name and tag_line arguments were *)
C12_RiotIdFromPayload ==
    (/\ pc = "done" /\ cur.tool = "get_account_by_riot_id"
     /\ Http2xx /\ resp.text = "<json>"
     /\ resp.parsed \in {JAccount(a) : a \in RiotIds}) =>
        LET a == resp.parsed.acct IN
        /\ calls = 1
        /\ req = Request(cur.tool, cur.region, cur.id)
        /\ result.kind = "return"
        /\ HasLine(result.out, Lit("Game Name: "), Str(a.gameName))
        /\ HasLine(result.out, Lit("Tag Line: "), Str(a.tagLine))
        /\ \E i \in 1..(Len(result.out) - 3) :
              /\ result.out[i] = Lit("Riot ID: ")
              /\ result.out[i + 1] = Str(a.gameName)
              /\ result.out[i + 2] = Lit("#")
              /\ result.out[i + 3] = Str(a.tagLine)

C12_Witness ==
    /\ pc = "done" /\ cur.tool = "get_account_by_riot_id"
    /\ cur.id = Account("Faker", "T1") /\ cur.region = "americas" /\ ~cur.omitted
    /\ resp.parsed = JAccount(Account("Faker", "T1"))
    /\ calls = 1 /\ req.host = "americas"
    /\ HasLine(result.out, Lit("Game Name: "), Str("Faker"))
    /\ HasLine(result.out, Lit("Tag Line: "), Str("T1"))
    /\ HasLine(result.out, Lit("#"), Str("T1"))

(* C14: a call that leaves out the region argument runs with 'americas' in
   the four account tools and with 'na1' in every other tool, and its request
   goes to that host, for the match tools to the routing region of 'na1' *)
C14_DefaultRegions ==
    (pc # "idle" /\ cur.omitted) =>
        /\ cur.region = (IF cur.tool \in AccountTools THEN "americas" ELSE "na1")
        /\ req # NoReq =>
              req.host = (IF cur.tool \in AccountTools THEN "americas"
                          ELSE IF cur.tool \in MatchTools THEN PLATFORM_TO_ROUTING["na1"]
                          ELSE "na1")

C14_Witness ==
    /\ pc = "awaiting" /\ cur.omitted /\ cur.tool = "get_featured_games"
    /\ cur.region = "na1" /\ req.host = "na1" /\ calls = 1

(* the result of the invocation c running alone when the upstream answers
   its request with r *)
RunAlone(c, r) ==
    IF ~RegionValid(c.tool, c.region) THEN Ret(InvalidRegionError(c.region))
    ELSE IF ~LevelValid(c.tool, c.level) THEN Ret(InvalidLevelError(c.level))
    ELSE IF KeyNotSet THEN ToolFinish(c.tool, c.level, NoKeyError)
    ELSE ToolFinish(c.tool, c.level, make_riot_request(r))

(* the request of the invocation c running alone *)
RequestAlone(c) ==
    IF RegionValid(c.tool, c.region) /\ LevelValid(c.tool, c.level) /\ ~KeyNotSet
    THEN Request(c.tool, Host(c.tool, c.region), c.id)
    ELSE NoReq

(* RunAlone and RequestAlone are what the sequential invocation produces *)
RunAloneIsSequential ==
    /\ pc # "idle" => req = RequestAlone(cur)
    /\ pc = "done" => result = RunAlone(cur, resp)

(* C15: under every interleaving of the running invocations each one sends
   the request and returns the string it would alone for the answer the
   upstream gave to its own request, every invocation reads the API key
   loaded at startup, and no step changes that key *)
C15_NoInterference ==
    /\ [](\A i \in Slots :
            /\ inv[i].key \in {KeyUnread, apiKey}
            /\ inv[i].pc # "idle" => inv[i].req = RequestAlone(inv[i].cur)
            /\ inv[i].pc = "done" =>
                  /\ inv[i].resp = inv[i].answer
                  /\ inv[i].result = RunAlone(inv[i].cur, inv[i].answer))
    /\ [][apiKey' = apiKey]_vars

C15_Witness ==
    /\ inv[1].pc = "done" /\ inv[2].pc = "awaiting"
    /\ inv[1].cur.tool = "get_match_details" /\ inv[2].cur.tool = "get_summoner_by_puuid"
    /\ inv[1].resp.status = 200 /\ inv[2].answer.status = 404
    /\ inv[1].result.kind = "return" /\ inv[1].key = apiKey

(* an assistant message without metadata whose text is one of the client's
   error strings *)
IsErrorMsg(m) ==
    /\ m.role = "assistant" /\ m.title = "" /\ Len(m.content) > 0
    /\ m.content[1] \in {Lit("Error: "), Lit("Error processing query: "),
                         Lit("Error processing query with agent: ")}

(* the positions of the messages the current call of g appended *)
OwnMessages(g) == (gen[g].base + 1)..Len(gen[g].history)

(* C16: a generate_response call during which an exception was raised, in
   the agent invocation, in the query thread or in the monitoring loop, has
   finished with exactly one error message appended to the history, and the
   client is still connected with its agent and tools *)
C16_ExceptionsSurfaced ==
    \A g \in Gens :
        (gen[g].pc = "done" /\ gen[g].raised # {}) =>
            /\ Cardinality({i \in OwnMessages(g) : IsErrorMsg(gen[g].history[i])}) = 1
            /\ client.is_connected /\ client.agent /\ client.tools

(* C17: a process started without the server-script argument has printed
   the usage text and exited with status 1 in its first step, with no client
   object constructed, no event loop started and no connection made *)
C17_UsageExit ==
    (mainpc # "off" /\ Len(argv) = 0) =>
        /\ mainpc \in {"start", "exited"}
        /\ client = NoClient
        /\ mainpc = "exited" =>
              /\ exitStatus = 1
              /\ stdout = UsageText

C17_Witness ==
    /\ mainpc = "exited" /\ Len(argv) = 0 /\ exitStatus = 1
    /\ stdout = UsageText /\ client = NoClient

(* the number printed after the first and after the last occurrence of the
   literal lit in out *)
FirstNumAfter(out, lit) ==
    LET I == {i \in 1..(Len(out) - 1) : out[i] = lit}
        a == CHOOSE i \in I : \A j \in I : i <= j
    IN  out[a + 1].n
LastNumAfter(out, lit) ==
    LET I == {i \in 1..(Len(out) - 1) : out[i] = lit}
        b == CHOOSE i \in I : \A j \in I : j <= i
    IN  out[b + 1].n

(* C18: format_match_detail renders every participant once under TEAM 1 or
   TEAM 2, so the rendered participants number the reported 'Participants'
   count, and the two 'Players' counts of format_active_game sum to the
   number of participants *)
C18_TeamsPartition ==
    /\ (fcall.fn = "format_match_detail" /\ fres.kind = "return"
        /\ Has(fres.out, Lit("Participants: "))) =>
          /\ FirstNumAfter(fres.out, Lit("Participants: ")) = fcall.payload.n
          /\ CountEntries(fres.out) = fcall.payload.n
          /\ \A i \in 1..fcall.payload.n : Has(fres.out, Entry(i))
    /\ (fcall.fn = "format_active_game" /\ fres.kind = "return"
        /\ Has(fres.out, Lit("Players: "))) =>
          /\ FirstNumAfter(fres.out, Lit("Players: ")) + LastNumAfter(fres.out, Lit("Players: "))
                = fcall.payload.n
          /\ CountEntries(fres.out) = fcall.payload.n

(* the number of events of the frames whose type is in types *)
RECURSIVE SumCounts(_, _)
SumCounts(frames, types) ==
    IF frames = <<>> THEN 0
    ELSE (IF Head(frames).type \in types THEN Head(frames).count ELSE 0)
         + SumCounts(Tail(frames), types)

(* the positions of the rendered event lines in out *)
LinePositions(out) == {i \in 1..Len(out) : out[i].k = "entry"}

(* C19: format_match_timeline keeps the events of the four allow-listed
   types, renders the first 20 of them in timestamp order (ties in input
   order) as one line each and, when more than 20 were kept, ends with a
   summary of the number kept minus 20 *)
C19_TimelineFiltered ==
    (fcall.fn = "format_match_timeline" /\ fcall.payload.frames # <<>>
     /\ fres.kind = "return") =>
        LET kept == SumCounts(fcall.payload.frames,
                        {"CHAMPION_KILL", "ELITE_MONSTER_KILL", "BUILDING_KILL",
                         "CHAMPION_SPECIAL_KILL"})
            out == fres.out
        IN  /\ Cardinality(LinePositions(out)) = Min(kept, 20)
            /\ \A a, b \in LinePositions(out) :
                  a < b => \/ out[a - 1].n < out[b - 1].n
                           \/ out[a - 1].n = out[b - 1].n /\ out[a].n < out[b].n
            /\ kept > 20 => HasLine(out, Lit("... and "), Num(kept - 20))
            /\ kept <= 20 => ~Has(out, Lit("... and "))


(* the labels of the timestamp fields a formatter prints, in the order of
   the payload's values *)
TimeLabels(f) ==
    CASE f = "format_summoner" -> <<"Last Modified: ">>
      [] f = "format_clash_tournaments" -> <<"Registration: ", "Start Time: ">>
      [] f = "format_clash_tournament" -> <<"Registration Opens: ", "Tournament Start: ">>
      [] f = "format_challenge_config" -> <<"Start Time: ", "End Time: ">>
      [] f = "format_player_challenges" -> <<"Achieved: ">>
      [] f = "format_match_detail" -> <<"Created: ">>
      [] OTHER -> <<>>

(* timestamp values whose conversion fails: a wrong type, an out-of-range
   value, an overflowing value *)
FailingValues == {TsText, TsYear10000, TsHuge}

(* out shows the field label as the raw epoch value v *)
ShownAsEpoch(out, label, v) ==
    \E i \in 1..(Len(out) - 2) :
        out[i] = Lit(label) /\ out[i + 1] = Lit("Epoch: ") /\ out[i + 2] = Str(v)

(* out shows the field label as the date or date-time of v *)
ShownAsDate(out, label, v) ==
    \E i \in 1..(Len(out) - 1) :
        out[i] = Lit(label) /\ out[i + 1].k \in {"datetime", "date"} /\ out[i + 1].s = v

(* C20: a timestamp formatter given timestamp values always returns its text;
   a field whose conversion fails is printed as the raw epoch value, and a
   field whose own conversion succeeds is printed as a date-time *)
C20_ConversionFallback ==
    (/\ fcall.fn \in TimestampFormatters
     /\ fcall.payload.ts # <<>>
     /\ WellTyped(fcall.fn, fcall.payload)) =>
        /\ fres.kind = "return"
        /\ \A i \in 1..Len(TimeLabels(fcall.fn)) :
             LET v == fcall.payload.ts[i]
                 label == TimeLabels(fcall.fn)[i]
             IN  /\ v \in FailingValues => ShownAsEpoch(fres.out, label, v)
                 /\ v = TsValid => ShownAsDate(fres.out, label, v)


(* the tools whose upstream answer is a JSON list *)
ListTools ==
    {"get_clash_players_by_puuid", "get_clash_tournaments", "get_league_entries_by_puuid",
     "get_league_entries_by_summoner_id", "get_league_entries_by_division",
     "get_challenge_configs", "get_challenge_leaderboard", "get_match_ids_by_puuid"}

(* the sentence a list formatter has for an empty list *)
NoneFoundSentence(f, level) ==
    CASE f = "format_clash_player" -> <<Lit("No active Clash registrations found for this player.")>>
      [] f = "format_clash_tournaments" -> <<Lit("No active or upcoming tournaments found.")>>
      [] f = "format_league_entries" -> <<Lit("No ranked entries found for this player.")>>
      [] f = "format_challenge_configs" -> <<Lit("No challenge configurations found.")>>
      [] f = "format_challenge_leaderboard" ->
            <<Lit("No "), Str(level), Lit(" players found for this challenge.")>>
      [] f = "format_match_ids" -> <<Lit("No matches found for PUUID: "), Str(Puuid8), Lit("...")>>
      [] OTHER -> <<>>

(* C21: a list-returning tool whose upstream answered 2xx with an empty JSON
   list returned its formatter's 'none found' sentence *)
C21_EmptyListNoneFound ==
    (/\ pc = "done" /\ cur.tool \in ListTools
     /\ Http2xx /\ resp.text \notin MalformedTexts
     /\ resp.parsed.t = "list" /\ resp.parsed.n = 0) =>
        result = Ret(NoneFoundSentence(TOOLS[cur.tool].fmt, cur.level))


(* C22: format_league_list and format_league_entries return for every
   non-negative wins and losses, and print for each entry the win rate
   wins / (wins + losses) * 100 to one decimal, 0.0 when wins + losses is 0
   or both counts are absent *)
C22_WinRateGuarded ==
    (/\ fcall.fn \in LeagueFormatters
     /\ fcall.payload.wl # <<>>
     /\ WellTyped(fcall.fn, fcall.payload)) =>
        /\ fres.kind = "return"
        /\ \A i \in 1..Len(fcall.payload.wl) :
             LET e == fcall.payload.wl[i]
                 sum == e.wins + e.losses
             IN  \E k \in 1..(Len(fres.out) - 5) :
                   /\ fres.out[k] = Entry(i)
                   /\ fres.out[k + 1] = Num(e.wins)
                   /\ fres.out[k + 3] = Num(e.losses)
                   /\ fres.out[k + 5].k = "rate"
                   /\ LET t == fres.out[k + 5].n IN
                      IF sum = 0 THEN t = 0
                      ELSE /\ 2 * (t * sum - 1000 * e.wins) <= sum
                           /\ 2 * (1000 * e.wins - t * sum) <= sum

(* an entry with wins and losses both 0, and one with neither key, were
   formatted next to an entry with a positive count *)
C22_Witness ==
    /\ fcall.fn = "format_league_entries" /\ fres.kind = "return"
    /\ Len(fcall.payload.wl) = 2
    /\ fcall.payload.wl[1] \in {LeagueEntry(0, 0), BareEntry}
    /\ fcall.payload.wl[2] = LeagueEntry(1, 2)
    /\ Has(fres.out, Rate(333)) /\ Has(fres.out, Rate(0))


(* C23: when a generate_response call whose query thread ran has finished,
   no event is left in the message queue *)
C23_EventsConsumed ==
    \A g \in Gens :
        (gen[g].pc = "done" /\ gen[g].thread = "dead") => queue = <<>>

(* C24: the monitoring loop consuming a tool_end or tool_error event appends
   exactly one message, whose title names the tool that emitted the event *)
C24_ResultPerEvent ==
    [][\A g \in Gens :
         (/\ gen[g].pc = "get" /\ queue # <<>>
          /\ Head(queue).type \in {"tool_end", "tool_error"}
          /\ queue' = Tail(queue)) =>
            /\ Len(gen'[g].history) = Len(gen[g].history) + 1
            /\ gen'[g].history[Len(gen'[g].history)].title = Head(queue).by]_vars


(* the queue items a step of call g takes out of the message queue: all of
   them when it empties the queue, the first when its monitoring loop gets
   one *)
TakenBy(g) ==
    IF gen[g].pc = "clear" /\ gen'[g].pc # "clear" THEN {queue[i] : i \in 1..Len(queue)}
    ELSE IF gen[g].pc = "get" /\ gen'[g].pc # "get" /\ queue # <<>> THEN {Head(queue)}
    ELSE {}

(* C25: with two generate_response calls running on one client, the queue
   clearing and the monitoring loop of a call take only events emitted by
   that call's own agent run, so no call shows or removes the other's *)
C25_CallsIsolated ==
    [][\A g \in Gens : \A ev \in TakenBy(g) : ev.call = g]_vars


(* a message shown in the chat only: one with metadata, or the placeholder *)
DisplayOnly(msg) == msg.title # "" \/ msg.content = ThinkingMsg.content

(* the messages of h that are conversation: not display-only *)
Conversation(h) == SelectSeq(h, LAMBDA msg : ~DisplayOnly(msg))

(* C26: the message list handed to the agent ends with a human message
   holding the current query, holds the earlier conversation and this turn's
   query once, and holds no display-only message *)
C26_AgentInput ==
    \A g \in Gens :
        gen[g].thread = "agent" =>
            LET m == gen[g].messages
                earlier == Conversation(SubSeq(gen[g].history, 1, gen[g].base))
            IN  /\ m # <<>>
                /\ m[Len(m)] = LcMessage("human", <<Str(gen[g].query)>>)
                /\ Len(m) = Len(earlier) + 1
                /\ \A i \in 1..Len(earlier) : m[i].content = earlier[i].content
                /\ \A i \in 1..Len(m) :
                     /\ m[i].content # ThinkingMsg.content
                     /\ Head(m[i].content) \notin {Lit("Tool returned: "), Lit("Tool error: ")}

(* the agent was invoked for a query asked after an earlier turn with its
   placeholder and tool messages *)
C26_Witness ==
    /\ gen[1].thread = "agent" /\ gen[1].base > 0
    /\ Len(gen[1].messages) = 3
    /\ gen[1].query = "rank of Faker"


(* one session of the interface after a start-up that succeeds, asking in
   an empty chat *)
NextAnswer ==
    \/ Exec(<<"server.py">>, "AIza-key")
    \/ Main_CheckArgs
    \/ Main_Construct
    \/ Main_StartLoop
    \/ Main_Connect("ok")
    \/ Main_Launch("ok")
    \/ \E g \in OneAtATime, q \in QueryValues : G_Call(g, q, <<>>)
    \/ \E g \in OneAtATime : G_Clear(g)
    \/ \E g \in OneAtATime, o \in {"ok", "raises"} : G_StartThread(g, o)
    \/ \E g \in OneAtATime, exc \in {"<none>"} \cup ExcTexts : T_Run(g, exc)
    \/ \E g \in OneAtATime, tool \in AgentTools : Agent_ToolStart(g, tool)
    \/ \E g \in OneAtATime, tool \in AgentTools, out \in {"short", "nonstr"} :
         Agent_ToolEnd(g, tool, out)
    \/ \E g \in OneAtATime, tool \in AgentTools : Agent_ToolError(g, tool)
    \/ \E g \in OneAtATime, o \in {"answer", "empty"} : Agent_Return(g, o)
    \/ \E g \in OneAtATime, exc \in ExcTexts : Agent_Raise(g, exc)
    \/ \E g \in OneAtATime : M_Check(g)
    \/ \E g \in OneAtATime : M_Get(g)
    \/ \E g \in OneAtATime : G_Final(g)
    \/ \E g \in OneAtATime : G_Return(g)

(* ------------------------------------- the client class used on its own *)
(* LeagueMCPClient() with a key *)
O_Construct(gk) ==
    /\ mainpc = "off"
    /\ ~client.constructed
    /\ ~GoogleKeyMissing(gk)
    /\ googleKey' = gk
    /\ client' = NewClient
    /\ UNCHANGED <<argv, mainpc, exitStatus, stdout, queue, gen, nonClientVars>>

(* client._start_event_loop() *)
O_StartLoop ==
    /\ client.constructed
    /\ client.loop = "none"
    /\ client' = [client EXCEPT !.loop = "running"]
    /\ UNCHANGED <<argv, googleKey, mainpc, exitStatus, stdout, queue, gen, nonClientVars>>

(* the caller's one `try: client._run_in_loop(client.connect_to_server(path))
   except Exception as e: print(f"Error: {e}")` *)
O_Connect(path, o) ==
    /\ client.constructed
    /\ client.loop = "running"
    /\ argv = <<>>
    /\ argv' = <<path>>
    /\ client' = Connected(client, <<path>>, o)
    /\ stdout' = IF ConnectError(<<path>>, o) # ""
                 THEN stdout \o <<Lit("Error: "), Str(ConnectError(<<path>>, o))>>
                 ELSE Append(stdout, Lit("Connected successfully!"))
    /\ UNCHANGED <<googleKey, mainpc, exitStatus, queue, gen, nonClientVars>>

(* create_gradio_interface(client) and interface.launch(...), whatever the
   connection state *)
O_Launch ==
    /\ mainpc = "off"
    /\ client.constructed
    /\ mainpc' = "serving"
    /\ UNCHANGED <<argv, googleKey, exitStatus, stdout, client, queue, gen, nonClientVars>>

NextObject ==
    \/ \E gk \in GoogleKeyValues : O_Construct(gk)
    \/ O_StartLoop
    \/ \E path \in {"server.py", "missing.py", "server.sh"}, o \in ConnectOutcomes : O_Connect(path, o)
    \/ O_Launch
    \/ \E g \in OneAtATime, q \in QueryValues, h \in HistoryInputs : G_Call(g, q, h)
    \/ \E g \in OneAtATime : G_Clear(g)
    \/ \E g \in OneAtATime : G_StartThread(g, "ok")
    \/ \E g \in OneAtATime : T_Run(g, "<none>")
    \/ \E g \in OneAtATime : Agent_ToolStart(g, "get_match_details")
    \/ \E g \in OneAtATime : Agent_ToolEnd(g, "get_match_details", "short")
    \/ \E g \in OneAtATime, o \in {"answer", "empty"} : Agent_Return(g, o)
    \/ \E g \in OneAtATime : M_Check(g)
    \/ \E g \in OneAtATime : M_Get(g)
    \/ \E g \in OneAtATime : G_Final(g)
    \/ \E g \in OneAtATime : G_Return(g)

SpecObject == Init /\ [][NextObject]_vars

(* the client's steps are scheduled: gradio keeps iterating the generator
   and the query thread runs *)
SpecAnswerFair ==
    /\ Init /\ [][NextAnswer]_vars
    /\ \A g \in OneAtATime :
         /\ WF_vars(M_Check(g)) /\ WF_vars(M_Get(g)) /\ WF_vars(G_Final(g))
         /\ WF_vars(\E exc \in {"<none>"} \cup ExcTexts : T_Run(g, exc))

(* the messages of call g that are neither its user message, its
   placeholder nor a tool message: its final messages *)
FinalMessages(g) ==
    {i \in (gen[g].base + 1)..Len(gen[g].history) :
        /\ gen[g].history[i].role = "assistant"
        /\ gen[g].history[i].title = ""
        /\ gen[g].history[i] # ThinkingMsg}

(* a call with a non-blank query on a connected client *)
Answering(g) == gen[g].thread # "none" \/ "outer" \in gen[g].raised

(* C27: once the agent invocation of a generate_response call has ended the
   generator finishes; a finished call has appended exactly one final
   assistant message, which is the last of the history; and the final
   message is appended only when the query thread is no longer running *)
C27_OneFinalMessage ==
    /\ \A g \in OneAtATime : (gen[g].thread = "dead") ~> (gen[g].pc = "done")
    /\ [](\A g \in OneAtATime :
            /\ (gen[g].pc = "done" /\ Answering(g)) =>
                  FinalMessages(g) = {Len(gen[g].history)}
            /\ (gen[g].pc # "done" /\ Answering(g)) => FinalMessages(g) = {})
    /\ [][\A g \in OneAtATime :
            (gen[g].pc # "done" /\ gen'[g].pc = "done" /\ gen[g].thread # "none") =>
                gen[g].thread = "dead"]_vars

(* a call whose agent used a tool has finished with its answer last *)
C27_Witness ==
    /\ gen[1].pc = "done" /\ gen[1].thread = "dead"
    /\ gen[1].base = 0 /\ Len(gen[1].history) = 5
    /\ gen[1].history[Len(gen[1].history)].content = <<Str("<answer>")>>


AgentNotInitialized ==
    <<Lit("Agent not initialized. Please connect to the MCP server first.")>>

(* C28: a connected client has its tools and its agent, and no call answers
   'Agent not initialized' on it; a connect_to_server that fails leaves the
   client not connected; a generate_response call made on a client that is
   not connected only appends the user message and the not-connected message
   and starts no query thread *)
C28_ConnectedMeansReady ==
    /\ [](client.is_connected => (client.tools /\ client.agent))
    /\ [](\A g \in Gens : client.is_connected => gen[g].result # AgentNotInitialized)
    /\ [][(/\ stdout' # stdout /\ Len(stdout') >= 2
            /\ stdout'[Len(stdout') - 1] = Lit("Error: ")) =>
             ~client'.is_connected]_vars
    /\ [][\A g \in Gens :
            (/\ gen[g].pc = "idle" /\ gen'[g].pc # "idle"
             /\ ~client.is_connected /\ Strip(gen'[g].query) # "") =>
                /\ gen'[g].pc = "done" /\ gen'[g].thread = "none"
                /\ Len(gen'[g].history) = gen'[g].base + 2
                /\ gen'[g].history[gen'[g].base + 1] = UserMsg(gen'[g].query)
                /\ gen'[g].history[gen'[g].base + 2] = NotConnectedMsg]_vars

(* a call was answered 'Not connected' on a client whose connect failed at
   tool retrieval *)
C28_Witness ==
    /\ client.mcp_client /\ ~client.tools /\ ~client.is_connected
    /\ gen[1].pc = "done" /\ gen[1].thread = "none"
    /\ gen[1].history = <<UserMsg("rank of Faker"), NotConnectedMsg>>


(* C29: a tool whose arguments were valid, whose key was set and whose
   upstream answered 2xx with a JSON body returned no Error: marker *)
C29_ErrorOnlyOnFailure ==
    (/\ pc = "done" /\ result.kind = "return"
     /\ resp.o = "http" /\ Is2xx(resp.status) /\ resp.text \notin MalformedTexts) =>
        ~Has(result.out, Lit("Error: "))


(* ------------------------------------ get_match_ids_by_puuid's filters *)
(* `if start_time:` and its like: None, 0 and "" are all false *)
ParamGiven(v) == v \notin {NoneTok, Num(0), Str("")}

(* the `params` list: startTime, endTime, queue and type when their
   argument is true, start when it is not 0, count when it is not 20 *)
QueryParams(f) ==
    (IF ParamGiven(f.start_time) THEN <<Param("startTime", f.start_time)>> ELSE <<>>)
    \o (IF ParamGiven(f.end_time) THEN <<Param("endTime", f.end_time)>> ELSE <<>>)
    \o (IF ParamGiven(f.queue) THEN <<Param("queue", f.queue)>> ELSE <<>>)
    \o (IF ParamGiven(f.match_type) THEN <<Param("type", f.match_type)>> ELSE <<>>)
    \o (IF f.start # 0 THEN <<Param("start", Num(f.start))>> ELSE <<>>)
    \o (IF f.count # 20 THEN <<Param("count", Num(f.count))>> ELSE <<>>)

(* the arguments get_match_ids_by_puuid is called with *)
StartTimes == {NoneTok, Num(0), Num(5)}
EndTimes == {NoneTok, Num(9)}
QueueIds == {NoneTok, Num(0), Num(420)}
MatchTypes == {NoneTok, Str(""), Str("ranked")}
Starts == {0, 5}
Counts == {20, 5}
MatchIdsRegions == {"na1", "euw1", "kr", "americas", "mars", Omitted}
MatchIdsResponses ==
    {r \in Responses : r.o = "exc" \/ (r.o = "http" /\ r.status = 200 /\ r.text = "<json>"
                                         /\ r.parsed.t = "list" /\ r.parsed.n <= 1)}

(* get_match_ids_by_puuid is invoked and runs to its await or to its return *)
MatchIdsCall(regionArg, f) ==
    LET tool == "get_match_ids_by_puuid"
        region == BoundRegion(tool, regionArg) IN
    /\ pc = "idle"
    /\ served < MaxServed
    /\ cur' = CallWith(tool, region, "", NoRiotId, regionArg = Omitted, f)
    /\ resp' = NoResp
    /\ IF ~RegionValid(tool, region)
       THEN /\ result' = Ret(InvalidRegionError(region))
            /\ pc' = "done" /\ calls' = 0 /\ req' = NoReq /\ served' = served + 1
       ELSE IF KeyMissing(apiKey)
       THEN /\ result' = ToolFinish(tool, "", NoKeyError)
            /\ pc' = "done" /\ calls' = RequestsIssued(apiKey)
            /\ req' = NoReq /\ served' = served + 1
       ELSE /\ result' = NoResult
            /\ pc' = "awaiting" /\ calls' = RequestsIssued(apiKey)
            /\ req' = RequestWith(tool, get_routing_region(region), NoRiotId, QueryParams(f))
            /\ served' = served
    /\ UNCHANGED <<apiKey, pureVars, concVars, clientVars>>

NextMatchIds ==
    \/ \E regionArg \in MatchIdsRegions :
         \E st \in StartTimes, et \in EndTimes, q \in QueueIds, mt \in MatchTypes :
           \E s \in Starts, c \in Counts :
             MatchIdsCall(regionArg, Filters(st, et, q, mt, s, c))
    \/ \E r \in MatchIdsResponses : Respond(r)
    \/ Return

SpecMatchIds == Init /\ [][NextMatchIds]_vars

(* the filters of the claim and the names they have in the query string *)
FilterNames == {"start_time", "end_time", "queue", "match_type"}
QueryName(name) ==
    CASE name = "start_time" -> "startTime"
      [] name = "end_time" -> "endTime"
      [] name = "queue" -> "queue"
      [] name = "match_type" -> "type"
InQuery(query, name) == {i \in 1..Len(query) : query[i].name = name}

(* C30: while get_match_ids_by_puuid awaits its request, every filter the
   caller supplied with a value other than None (start_time, end_time,
   queue, match_type) is in the request's query string exactly once and
   with exactly that value, the value 0 included; a filter left unset is
   not in it; and the request goes to the routing host of the platform
   region, which is one of LOL_REGIONS *)
C30_FiltersInQuery ==
    (pc = "awaiting" /\ cur.tool = "get_match_ids_by_puuid") =>
        /\ \A name \in FilterNames :
             IF cur.filters[name] # NoneTok
             THEN /\ Cardinality(InQuery(req.query, QueryName(name))) = 1
                  /\ \A i \in InQuery(req.query, QueryName(name)) :
                       req.query[i].value = cur.filters[name]
             ELSE InQuery(req.query, QueryName(name)) = {}
        /\ cur.region \in Range(LOL_REGIONS)
        /\ req.host = PLATFORM_TO_ROUTING[cur.region]

====
